---- MODULE Spec2Model ----
(***************************************************************************)
(* EchoAI background worker (src/echoai/extension/background.js): the      *)
(* multi-vector political scoring core.  Numbers the JavaScript keeps as   *)
(* doubles are kept here as exact fractions [n, d] in lowest terms, so a   *)
(* weighted average, a clamp and a threshold test are computed as the      *)
(* code computes them, without rounding.                                   *)
(***************************************************************************)
EXTENDS Integers, Sequences, FiniteSets, TLC

VARIABLES
    vectors,      \* combineVectors: the mapping vector name -> VectorResult
    combined,     \* combineVectors: what the call produced
    metadata,     \* the article's metadata: domain, title, url
    text,         \* the article's text
    domainResult, \* analyzeDomainBias: what the call produced
    toneQueries,  \* analyzeGDELTTone: const queries
    toneI,        \* analyzeGDELTTone: the loop index i
    tonePc,       \* analyzeGDELTTone: idle, delay, fetch (awaiting), done
    toneLog,      \* the delays waited, queries sent and their outcomes
    toneLast,     \* the tone service's latest response
    toneResult,   \* analyzeGDELTTone: what the call produced
    contentResult,   \* analyzeContentKeywords: what the call produced
    languageResult,  \* analyzeLanguagePatterns: what the call produced
    framingResult,   \* analyzeFramingTechniques: what the call produced
    emotionalResult, \* analyzeEmotionalCharge: what the call produced
    politicalBias,   \* analyzeBiasGDELT: what the call produced
    textIsString,    \* whether articleData.text is a string
    articlePc,       \* analyzeArticle: the stage the call is at
    analysis,        \* analyzeArticle: const analysis
    stages,          \* analyzeArticle: the stages begun, in order
    returned,        \* analyzeArticle: what the call returned
    geminiApiKey,    \* the worker's let geminiApiKey
    storage,         \* chrome.storage.local: key -> stored value
    now,             \* Date.now(), in milliseconds
    storageDown,     \* whether chrome.storage.local rejects its calls
    calls,           \* the worker's onMessage calls: id -> where each is
    isProcessing,    \* content script: let isProcessing
    locationHref,    \* content script: window.location.href
    lastUrl,         \* content script: let lastUrl
    longText,        \* whether the page holds 100 characters of article text
    timers,          \* content script: pending setTimeout(processArticle, 1000)
    outstanding,     \* ANALYZE_ARTICLE messages sent and not answered yet
    lastUpdate,      \* the page of the last UPDATE_SIDEBAR message sent
    view,            \* sidebar: which of loading, content, error is shown
    saveButton,      \* sidebar: saveApiKeyBtn, its text and disabled
    apiKeyInput,     \* sidebar: apiKeyInputEl.value, as typed
    savePc,          \* sidebar: the message saveApiKey waits on
    lastSave,        \* sidebar: the key and the outcome of the last save
    sessions,        \* sidebar: the polling intervals of requestAnalysis
    extracting       \* sidebar: requestAnalysis calls waiting for the page

\* the state of the scoring functions
scoringVars ==
    <<vectors, combined, metadata, text, domainResult, toneQueries, toneI,
      tonePc, toneLog, toneLast, toneResult, contentResult, languageResult,
      framingResult, emotionalResult>>
\* the state of the worker, the page and the sidebar around them
articleVars ==
    <<politicalBias, textIsString, articlePc, analysis, stages, returned>>
workerVars == <<geminiApiKey, storage, now, storageDown>>
pageVars ==
    <<isProcessing, locationHref, lastUrl, longText, timers, outstanding,
      lastUpdate>>
sidebarVars ==
    <<view, saveButton, apiKeyInput, savePc, lastSave, sessions, extracting>>
clientVars == <<pageVars, sidebarVars>>
callVars == <<calls, clientVars>>
appVars == <<articleVars, workerVars, calls, clientVars>>

vars == <<scoringVars, appVars>>

(***************************************************************************)
(* Fractions                                                               *)
(***************************************************************************)
Abs(x) == IF x < 0 THEN -x ELSE x

RECURSIVE GCD(_, _)
GCD(a, b) == IF b = 0 THEN a ELSE GCD(b, a % b)

\* n/d in lowest terms, d > 0; the value that is not a number has d = 0
R(n, d) ==
    IF d = 0 THEN [n |-> 0, d |-> 0]
    ELSE LET g == GCD(Abs(n), d)
         IN  [n |-> n \div g, d |-> d \div g]

RInt(k) == [n |-> k, d |-> 1]
RZero == RInt(0)
RLt(a, b) == a.n * b.d < b.n * a.d
RLe(a, b) == a.n * b.d <= b.n * a.d
RNeg(a) == [n |-> -a.n, d |-> a.d]
RAdd(a, b) ==
    IF a.d = 0 \/ b.d = 0 THEN [n |-> 0, d |-> 0]
    ELSE LET l == (a.d \div GCD(a.d, b.d)) * b.d
         IN  R(a.n * (l \div a.d) + b.n * (l \div b.d), l)
RMul(a, b) == R(a.n * b.n, a.d * b.d)
\* a / b for b > 0
RDiv(a, b) == R(a.n * b.d, a.d * b.n)
RMin(a, b) == IF RLt(b, a) THEN b ELSE a
RMax(a, b) == IF RLt(a, b) THEN b ELSE a
\* Math.max(-1, Math.min(1, x))
Clamp(x) == RMax(RInt(-1), RMin(RInt(1), x))
\* the value a JavaScript number has when it is not a number
NaN == [n |-> 0, d |-> 0]
IsNumber(x) == x.d # 0
\* Math.max(-1, Math.min(1, x)): NaN stays NaN
MathClamp(x) == IF IsNumber(x) THEN Clamp(x) ELSE NaN

(***************************************************************************)
(* Vector results                                                          *)
(***************************************************************************)
VectorNames == <<"domain", "content", "gdelt", "language", "framing">>

\* a slot of the vectors mapping that holds null
Absent == [present |-> FALSE, score |-> RZero, confidence |-> RZero]
VectorResult(s, c) == [present |-> TRUE, score |-> s, confidence |-> c]

MutWeightsLanguageTenth ==
    [domain |-> R(35, 100), content |-> R(25, 100), gdelt |-> R(20, 100),
     language |-> R(10, 100), framing |-> R(8, 100)]
weights ==
    [domain |-> R(35, 100), content |-> R(25, 100), gdelt |-> R(20, 100),
     language |-> R(12, 100), framing |-> R(8, 100)]

MutPoliticalLabelClosed(score) ==
    IF RLe(score, R(-6, 10)) THEN "Conservative"
    ELSE IF RLe(score, R(-3, 10)) THEN "Moderately Conservative"
    ELSE IF RLe(score, R(-1, 10)) THEN "Slightly Conservative"
    ELSE IF RLe(score, R(1, 10)) THEN "Moderate"
    ELSE IF RLe(score, R(3, 10)) THEN "Slightly Liberal"
    ELSE IF RLe(score, R(6, 10)) THEN "Moderately Liberal"
    ELSE "Liberal"
getPoliticalLabel(score) ==
    IF RLt(score, R(-6, 10)) THEN "Conservative"
    ELSE IF RLt(score, R(-3, 10)) THEN "Moderately Conservative"
    ELSE IF RLt(score, R(-1, 10)) THEN "Slightly Conservative"
    ELSE IF RLt(score, R(1, 10)) THEN "Moderate"
    ELSE IF RLt(score, R(3, 10)) THEN "Slightly Liberal"
    ELSE IF RLt(score, R(6, 10)) THEN "Moderately Liberal"
    ELSE "Liberal"

\* vectorData && vectorData.score !== null && vectorData.score !== undefined
IsActive(v) == v.present

\* vectorData.confidence || 0.5 : a confidence of 0 is falsy
EffectiveConfidence(v) ==
    IF v.confidence = RZero THEN R(1, 2) ELSE v.confidence

\* weight * confidence
AdjustedWeight(vs, ws, name) == RMul(ws[name], EffectiveConfidence(vs[name]))

\* the forEach over Object.entries(vectors), entries 1..k
RECURSIVE WeightedSum(_, _, _)
WeightedSum(vs, ws, k) ==
    IF k = 0 THEN RZero
    ELSE LET name == VectorNames[k]
             rest == WeightedSum(vs, ws, k - 1)
         IN  IF IsActive(vs[name])
             THEN RAdd(rest, RMul(vs[name].score, AdjustedWeight(vs, ws, name)))
             ELSE rest

RECURSIVE TotalWeight(_, _, _)
TotalWeight(vs, ws, k) ==
    IF k = 0 THEN RZero
    ELSE LET name == VectorNames[k]
             rest == TotalWeight(vs, ws, k - 1)
         IN  IF IsActive(vs[name])
             THEN RAdd(rest, AdjustedWeight(vs, ws, name))
             ELSE rest

ActiveVectors(vs) == SelectSeq(VectorNames, LAMBDA name : IsActive(vs[name]))

NoResult ==
    [status |-> "none", score |-> RZero, label |-> "", confidence |-> RZero,
     vectors |-> <<>>, individualScores |-> <<>>]

\* throw new Error('No vectors available for analysis')
CombinerError == [NoResult EXCEPT !.status = "error"]

\* if (totalWeight === 0) throw
MutExhaustedOnZeroSum(vs, ws) == WeightedSum(vs, ws, Len(VectorNames)) = RZero
Exhausted(vs, ws) == TotalWeight(vs, ws, Len(VectorNames)) = RZero

\* Math.min(vectorCount / 5, 0.9)
MutBaseConfidenceUncapped(vectorCount) == R(vectorCount, 5)
BaseConfidence(vectorCount) == RMin(R(vectorCount, 5), R(9, 10))

combineVectors(vs, ws) ==
    IF Exhausted(vs, ws) THEN CombinerError
    ELSE LET finalScore == RDiv(WeightedSum(vs, ws, Len(VectorNames)),
                                TotalWeight(vs, ws, Len(VectorNames)))
             normalizedScore == MathClamp(finalScore)
             activeVectors == ActiveVectors(vs)
         IN  [status |-> "ok",
              score |-> normalizedScore,
              label |-> getPoliticalLabel(normalizedScore),
              confidence |-> BaseConfidence(Len(activeVectors)),
              vectors |-> activeVectors,
              individualScores |->
                  [i \in 1..Len(activeVectors) |-> vs[activeVectors[i]].score]]

(***************************************************************************)
(* Strings: a JavaScript string is the sequence of its characters          *)
(***************************************************************************)
UpperLetters ==
    <<"A", "B", "C", "D", "E", "F", "G", "H", "I", "J", "K", "L", "M",
      "N", "O", "P", "Q", "R", "S", "T", "U", "V", "W", "X", "Y", "Z">>
LowerLetters ==
    <<"a", "b", "c", "d", "e", "f", "g", "h", "i", "j", "k", "l", "m",
      "n", "o", "p", "q", "r", "s", "t", "u", "v", "w", "x", "y", "z">>
Digits == {"0", "1", "2", "3", "4", "5", "6", "7", "8", "9"}
Range(s) == {s[i] : i \in 1..Len(s)}
Letters == Range(UpperLetters) \cup Range(LowerLetters)

LowerChar(c) ==
    IF c \in Range(UpperLetters)
    THEN LowerLetters[CHOOSE i \in 1..Len(UpperLetters) : UpperLetters[i] = c]
    ELSE c

\* String.prototype.toLowerCase
ToLowerCase(s) == [i \in 1..Len(s) |-> LowerChar(s[i])]

StartsWith(s, p) == Len(s) >= Len(p) /\ SubSeq(s, 1, Len(p)) = p
EndsWith(s, p) == Len(s) >= Len(p) /\ SubSeq(s, Len(s) - Len(p) + 1, Len(s)) = p
\* String.prototype.includes
Includes(s, p) ==
    \E i \in 1..(Len(s) - Len(p) + 1) : SubSeq(s, i, i + Len(p) - 1) = p
AllIn(s, set) == \A i \in 1..Len(s) : s[i] \in set

(***************************************************************************)
(* Vector 1: analyzeDomainBias                                             *)
(***************************************************************************)
\* const domainBiasMap = { ... }, in source order
domainBiasMap ==
    <<
      [domain |-> <<"f", "o", "x", "n", "e", "w", "s", ".", "c", "o", "m">>,
       score |-> R(-8, 10)],
      [domain |-> <<"b", "r", "e", "i", "t", "b", "a", "r", "t", ".", "c",
        "o", "m">>,
       score |-> R(-9, 10)],
      [domain |-> <<"d", "a", "i", "l", "y", "w", "i", "r", "e", ".", "c",
        "o", "m">>,
       score |-> R(-7, 10)],
      [domain |-> <<"n", "y", "p", "o", "s", "t", ".", "c", "o", "m">>,
       score |-> R(-5, 10)],
      [domain |-> <<"w", "s", "j", ".", "c", "o", "m">>,
       score |-> R(-4, 10)],
      [domain |-> <<"n", "a", "t", "i", "o", "n", "a", "l", "r", "e", "v",
        "i", "e", "w", ".", "c", "o", "m">>,
       score |-> R(-8, 10)],
      [domain |-> <<"t", "o", "w", "n", "h", "a", "l", "l", ".", "c", "o",
        "m">>,
       score |-> R(-7, 10)],
      [domain |-> <<"w", "a", "s", "h", "i", "n", "g", "t", "o", "n", "e",
        "x", "a", "m", "i", "n", "e", "r", ".", "c", "o", "m">>,
       score |-> R(-6, 10)],
      [domain |-> <<"t", "h", "e", "b", "l", "a", "z", "e", ".", "c", "o",
        "m">>,
       score |-> R(-8, 10)],
      [domain |-> <<"r", "e", "d", "s", "t", "a", "t", "e", ".", "c", "o",
        "m">>,
       score |-> R(-7, 10)],
      [domain |-> <<"t", "h", "e", "f", "e", "d", "e", "r", "a", "l", "i",
        "s", "t", ".", "c", "o", "m">>,
       score |-> R(-7, 10)],
      [domain |-> <<"c", "n", "n", ".", "c", "o", "m">>,
       score |-> R(7, 10)],
      [domain |-> <<"m", "s", "n", "b", "c", ".", "c", "o", "m">>,
       score |-> R(8, 10)],
      [domain |-> <<"n", "y", "t", "i", "m", "e", "s", ".", "c", "o", "m">>,
       score |-> R(6, 10)],
      [domain |-> <<"w", "a", "s", "h", "i", "n", "g", "t", "o", "n", "p",
        "o", "s", "t", ".", "c", "o", "m">>,
       score |-> R(6, 10)],
      [domain |-> <<"t", "h", "e", "g", "u", "a", "r", "d", "i", "a", "n",
        ".", "c", "o", "m">>,
       score |-> R(7, 10)],
      [domain |-> <<"h", "u", "f", "f", "p", "o", "s", "t", ".", "c", "o",
        "m">>,
       score |-> R(8, 10)],
      [domain |-> <<"v", "o", "x", ".", "c", "o", "m">>,
       score |-> R(7, 10)],
      [domain |-> <<"s", "l", "a", "t", "e", ".", "c", "o", "m">>,
       score |-> R(6, 10)],
      [domain |-> <<"m", "o", "t", "h", "e", "r", "j", "o", "n", "e", "s",
        ".", "c", "o", "m">>,
       score |-> R(8, 10)],
      [domain |-> <<"t", "h", "e", "d", "a", "i", "l", "y", "b", "e", "a",
        "s", "t", ".", "c", "o", "m">>,
       score |-> R(7, 10)],
      [domain |-> <<"s", "a", "l", "o", "n", ".", "c", "o", "m">>,
       score |-> R(7, 10)],
      [domain |-> <<"t", "h", "i", "n", "k", "p", "r", "o", "g", "r", "e",
        "s", "s", ".", "o", "r", "g">>,
       score |-> R(8, 10)],
      [domain |-> <<"b", "b", "c", ".", "c", "o", "m">>,
       score |-> R(0, 10)],
      [domain |-> <<"r", "e", "u", "t", "e", "r", "s", ".", "c", "o", "m">>,
       score |-> R(0, 10)],
      [domain |-> <<"a", "p", ".", "o", "r", "g">>,
       score |-> R(0, 10)],
      [domain |-> <<"n", "p", "r", ".", "o", "r", "g">>,
       score |-> R(1, 10)],
      [domain |-> <<"p", "b", "s", ".", "o", "r", "g">>,
       score |-> R(0, 10)],
      [domain |-> <<"e", "c", "o", "n", "o", "m", "i", "s", "t", ".", "c",
        "o", "m">>,
       score |-> R(0, 10)],
      [domain |-> <<"b", "l", "o", "o", "m", "b", "e", "r", "g", ".", "c",
        "o", "m">>,
       score |-> R(0, 10)],
      [domain |-> <<"p", "o", "l", "i", "t", "i", "c", "o", ".", "c", "o",
        "m">>,
       score |-> R(0, 10)]
    >>

\* domainBiasMap[domain]: the entry's index, 0 for undefined
TableIndex(domain) ==
    IF \E i \in 1..Len(domainBiasMap) : domainBiasMap[i].domain = domain
    THEN CHOOSE i \in 1..Len(domainBiasMap) : domainBiasMap[i].domain = domain
    ELSE 0

\* const domainPatterns = [ ... ]
domainPatterns ==
    <<[score |-> R(-7, 10), label |-> "Fox Affiliate"],
      [score |-> R(-8, 10), label |-> "Fox News"],
      [score |-> R(-7, 10), label |-> "Fox Network"],
      [score |-> R(7, 10), label |-> "CNN"],
      [score |-> R(7, 10), label |-> "CNN Affiliate"],
      [score |-> R(0, 10), label |-> "Local News"],
      [score |-> R(0, 10), label |-> "Local Herald"],
      [score |-> R(0, 10), label |-> "Local Times"],
      [score |-> R(0, 10), label |-> "Local Tribune"],
      [score |-> R(0, 10), label |-> "Educational"],
      [score |-> R(0, 10), label |-> "Government"]>>

\* /^fox\d+[a-z]*\.com$/i
MatchFoxAffiliate(s) ==
    /\ StartsWith(s, <<"f", "o", "x">>)
    /\ EndsWith(s, <<".", "c", "o", "m">>)
    /\ LET mid == SubSeq(s, 4, Len(s) - 4)
       IN  \E k \in 1..Len(mid) :
               /\ AllIn(SubSeq(mid, 1, k), Digits)
               /\ AllIn(SubSeq(mid, k + 1, Len(mid)), Letters)

\* /fox[a-z]*\.com$/i
MatchFoxNetwork(s) ==
    /\ EndsWith(s, <<".", "c", "o", "m">>)
    /\ \E i \in 1..(Len(s) - 6) :
           /\ SubSeq(s, i, i + 2) = <<"f", "o", "x">>
           /\ AllIn(SubSeq(s, i + 3, Len(s) - 4), Letters)

\* /^[a-z]+<word>\.com$/i
MatchLocal(s, tail) ==
    /\ EndsWith(s, tail)
    /\ Len(s) > Len(tail)
    /\ AllIn(SubSeq(s, 1, Len(s) - Len(tail)), Letters)

\* pattern.test(domain) for domainPatterns[i]; the i flag folds case
PatternTest(i, domain) ==
    LET s == ToLowerCase(domain)
    IN  CASE i = 1 -> MatchFoxAffiliate(s)
          [] i = 2 ->
              EndsWith(s, <<".", "f", "o", "x", "n", "e", "w", "s", ".", "c", "o", "m">>)
          [] i = 3 -> MatchFoxNetwork(s)
          [] i = 4 -> s = <<"c", "n", "n", ".", "c", "o", "m">>
          [] i = 5 -> EndsWith(s, <<".", "c", "n", "n", ".", "c", "o", "m">>)
          [] i = 6 -> MatchLocal(s, <<"n", "e", "w", "s", ".", "c", "o", "m">>)
          [] i = 7 ->
              MatchLocal(s, <<"h", "e", "r", "a", "l", "d", ".", "c", "o", "m">>)
          [] i = 8 ->
              MatchLocal(s, <<"t", "i", "m", "e", "s", ".", "c", "o", "m">>)
          [] i = 9 ->
              MatchLocal(s, <<"t", "r", "i", "b", "u", "n", "e", ".", "c", "o", "m">>)
          [] i = 10 -> EndsWith(s, <<".", "e", "d", "u">>)
          [] i = 11 -> EndsWith(s, <<".", "g", "o", "v">>)

\* a scan that does not stop at its first match
RECURSIVE MutScanWithoutBreak(_, _)
MutScanWithoutBreak(domain, i) ==
    IF i > Len(domainPatterns) THEN 0
    ELSE LET later == MutScanWithoutBreak(domain, i + 1)
         IN  IF later # 0 THEN later
             ELSE IF PatternTest(i, domain) THEN i ELSE 0

\* for (const {pattern, score, label} of domainPatterns)
\*     if (pattern.test(domain)) { domainScore = score; ...; break; }
\* from entry i on: the index of the entry that sets domainScore, 0 for none
RECURSIVE ScanPatterns(_, _)
ScanPatterns(domain, i) ==
    IF i > Len(domainPatterns) THEN 0
    ELSE IF PatternTest(i, domain) THEN i
    ELSE ScanPatterns(domain, i + 1)

\* (metadata.domain || '').toLowerCase().replace(/^www\./, '')
NormalizeDomain(raw) ==
    LET lower == ToLowerCase(raw)
    IN  IF StartsWith(lower, <<"w", "w", "w", ".">>)
        THEN SubSeq(lower, 5, Len(lower))
        ELSE lower

NoDomainResult ==
    [status |-> "none", score |-> RZero, confidence |-> RZero,
     matchedLabel |-> ""]
\* throw new Error('Domain not recognized')
DomainNotRecognized == [NoDomainResult EXCEPT !.status = "threw"]
DomainMatch(score, label) ==
    [status |-> "ok", score |-> score, confidence |-> R(9, 10),
     matchedLabel |-> label]

\* the substring heuristics, reached with domainScore still undefined
DomainHeuristics(domain) ==
    IF Includes(domain, <<"f", "o", "x">>)
    THEN DomainMatch(R(-7, 10), "Fox Network Affiliate")
    ELSE IF \/ Includes(domain, <<"c", "n", "n">>)
            \/ Includes(domain, <<"m", "s", "n", "b", "c">>)
    THEN DomainMatch(R(7, 10), "CNN/MSNBC Affiliate")
    ELSE IF \/ Includes(domain, <<"a", "b", "c">>)
            \/ Includes(domain, <<"c", "b", "s">>)
            \/ Includes(domain, <<"n", "b", "c">>)
    THEN DomainMatch(R(0, 10), "Major Network Affiliate")
    ELSE DomainNotRecognized

analyzeDomainBias(md) ==
    LET domain == NormalizeDomain(md.domain)
        t == TableIndex(domain)
        p == ScanPatterns(domain, 1)
    IN  IF t # 0 THEN DomainMatch(domainBiasMap[t].score, "")
        ELSE IF p # 0
        THEN DomainMatch(domainPatterns[p].score, domainPatterns[p].label)
        ELSE DomainHeuristics(domain)

(***************************************************************************)
(* analyzeDomainBias on a family of publisher domains                      *)
(***************************************************************************)
DomainPrefixes ==
    {<<>>,
     <<"w", "w", "w", ".">>,
     <<"W", "W", "W", ".">>,
     <<"l", "o", "c", "a", "l", ".">>,
     <<"w", "w", "w", ".", "l", "o", "c", "a", "l", ".">>}
DomainStems ==
    {<<"f", "o", "x", "n", "e", "w", "s">>,
    <<"F", "o", "x", "N", "e", "w", "s">>,
    <<"c", "n", "n">>,
    <<"n", "y", "t", "i", "m", "e", "s">>,
    <<"b", "b", "c">>,
    <<"f", "o", "x", "5">>,
     <<"f", "o", "x", "3", "2", "c", "h", "i", "c", "a", "g", "o">>,
     <<"m", "y", "f", "o", "x", "h", "o", "u", "s", "t", "o", "n">>,
     <<"d", "a", "i", "l", "y", "n", "e", "w", "s">>,
     <<"c", "i", "t", "y", "h", "e", "r", "a", "l", "d">>,
     <<"m", "s", "n", "b", "c", "d", "a", "i", "l", "y">>,
     <<"n", "b", "c", "s", "p", "o", "r", "t", "s">>,
     <<"h", "a", "r", "v", "a", "r", "d">>,
     <<"r", "a", "n", "d", "o", "m", "b", "l", "o", "g">>}
DomainSuffixes ==
    {<<".", "c", "o", "m">>,
     <<".", "x", "y", "z">>,
     <<".", "e", "d", "u">>,
     <<".", "g", "o", "v">>}
\* metadata.domain; the empty string also stands for a missing domain
TestDomains ==
    {<<>>} \cup
    {p \o s \o x :
        p \in DomainPrefixes, s \in DomainStems, x \in DomainSuffixes}

(***************************************************************************)
(* combineVectors on every mapping of the five slots                       *)
(***************************************************************************)
InputScores == {RInt(-1), RZero, R(7, 10)}
InputConfidences == {RZero, R(1, 10), R(9, 10)}
InputSlots ==
    {Absent} \cup {VectorResult(s, c) : s \in InputScores, c \in InputConfidences}

NameSet == {VectorNames[i] : i \in 1..Len(VectorNames)}

\* scores on, just below and just above each threshold of the labels, in
\* hundredths
BoundaryScores ==
    {R(k, 100) : k \in {-100, -61, -60, -59, -31, -30, -29, -11, -10, -9, 0,
                        9, 10, 11, 29, 30, 31, 59, 60, 61, 100}}

\* one vector alone: the combined score is that vector's score
BoundaryVectors ==
    {[name \in NameSet |->
          IF name = only THEN VectorResult(s, R(9, 10)) ELSE Absent] :
        only \in NameSet, s \in BoundaryScores}

(***************************************************************************)
(* Vector 3: analyzeGDELTTone                                              *)
(***************************************************************************)
\* \w and \s of the regular expressions
WordChars == Letters \cup Digits \cup {"_"}
Whitespace == {" ", "\t", "\n"}

\* String.prototype.split on a one-character separator
RECURSIVE Split(_, _)
Split(s, sep) ==
    IF \E i \in 1..Len(s) : s[i] = sep
    THEN LET i == CHOOSE k \in 1..Len(s) :
                      s[k] = sep /\ \A j \in 1..(k - 1) : s[j] # sep
         IN  <<SubSeq(s, 1, i - 1)>> \o Split(SubSeq(s, i + 1, Len(s)), sep)
    ELSE <<s>>

\* Array.prototype.join
RECURSIVE Join(_, _)
Join(parts, sep) ==
    IF Len(parts) = 0 THEN <<>>
    ELSE IF Len(parts) = 1 THEN parts[1]
    ELSE parts[1] \o sep \o Join(Tail(parts), sep)

\* String.prototype.substring(0, n)
Substring0(s, n) == SubSeq(s, 1, IF Len(s) < n THEN Len(s) ELSE n)

\* .replace(/[^\w\s]/g, ' ')
ReplaceNonWord(s) ==
    [i \in 1..Len(s) |->
        IF s[i] \in WordChars \cup Whitespace THEN s[i] ELSE " "]

\* String.prototype.trim
Trim(s) ==
    LET solid == {i \in 1..Len(s) : s[i] \notin Whitespace}
    IN  IF solid = {} THEN <<>>
        ELSE SubSeq(s, CHOOSE i \in solid : \A j \in solid : i <= j,
                       CHOOSE i \in solid : \A j \in solid : j <= i)

\* text.substring(0, 150)
BodyPrefixLen == 150
\* p => p.length > 5
MinPathTokenLen == 5
\* q => q && q.length > 10
MinQueryLen == 10
\* setTimeout(resolve, 500)
DelayMs == 500

\* a metadata field that is undefined
NoString == [present |-> FALSE, s |-> <<>>]
Str(s) == [present |-> TRUE, s |-> s]
NoUrl == [present |-> FALSE, valid |-> FALSE, pathname |-> <<>>]
\* a url string that new URL() rejects
BadUrl == [present |-> TRUE, valid |-> FALSE, pathname |-> <<>>]
Url(pathname) == [present |-> TRUE, valid |-> TRUE, pathname |-> pathname]

\* new URL(metadata.url) throws a TypeError, outside the try block
QueriesThrow(md) == md.url.present /\ ~md.url.valid

\* new URL(metadata.url).pathname.split('/').filter(p => p.length > 5).join(' ')
PathQuery(url) ==
    Join(SelectSeq(Split(url.pathname, "/"),
                   LAMBDA p : Len(p) > MinPathTokenLen), <<" ">>)

\* text.substring(0, 150).replace(/[^\w\s]/g, ' ').trim()
BodyQuery(txt) == Trim(ReplaceNonWord(Substring0(txt, BodyPrefixLen)))

\* the three candidates, in the order of the array literal
Candidates(txt, md) ==
    <<md.title,
      IF md.url.present THEN Str(PathQuery(md.url)) ELSE NoString,
      Str(BodyQuery(txt))>>

\* q => q && q.length > 10 ; the empty string is falsy
KeepQuery(q) == q.present /\ Len(q.s) > MinQueryLen

BuildQueries(txt, md) ==
    LET kept == SelectSeq(Candidates(txt, md), KeepQuery)
    IN  [i \in 1..Len(kept) |-> kept[i].s]

\* values of the response body's fields
Missing == [kind |-> "missing", v |-> 0]
Num(v) == [kind |-> "num", v |-> v]
\* a string that is not a number
Text == [kind |-> "text", v |-> 0]
\* the value true: truthy, Number(true) is 1, parseFloat(true) is NaN
True == [kind |-> "true", v |-> 0]
Article(tone, avgtone, tone_score) ==
    [isNull |-> FALSE, tone |-> tone, avgtone |-> avgtone,
     tone_score |-> tone_score]
\* a null entry of the articles array
NullArticle ==
    [isNull |-> TRUE, tone |-> Missing, avgtone |-> Missing,
     tone_score |-> Missing]

NoField == [kind |-> "missing", items |-> <<>>]
\* a field holding something truthy that is not an array
OtherField == [kind |-> "other", items |-> <<>>]
ArrayField(items) == [kind |-> "array", items |-> items]
Body(articles, results, data) ==
    [articles |-> articles, results |-> results, data |-> data]

NoResponse == [kind |-> "none", data |-> Body(NoField, NoField, NoField)]
\* fetch() rejects
NetworkError == [NoResponse EXCEPT !.kind = "network_error"]
\* !response.ok
NotOk == [NoResponse EXCEPT !.kind = "not_ok"]
\* response.json() rejects
BadJson == [NoResponse EXCEPT !.kind = "bad_json"]
Json(data) == [kind |-> "json", data |-> data]

Truthy(v) == (v.kind = "num" /\ v.v # 0) \/ v.kind \in {"text", "true"}
\* isNaN(v): Number(v) is NaN
IsNaN(v) == v.kind = "text"
\* parseFloat(v) is NaN: the string 'true' starts with no number
ParseFloatIsNaN(v) == v.kind \in {"text", "true"}

\* article.tone || article.avgtone || article.tone_score || null
PickTone(article) ==
    IF Truthy(article.tone) THEN article.tone
    ELSE IF Truthy(article.avgtone) THEN article.avgtone
    ELSE IF Truthy(article.tone_score) THEN article.tone_score
    ELSE Missing

\* tone !== undefined && tone !== null && !isNaN(tone)
ToneCounts(article) ==
    LET tone == PickTone(article)
    IN  tone.kind # "missing" /\ ~IsNaN(tone)

\* data.articles || data.results || data.data || []
BodyArticles(data) ==
    IF data.articles.kind # "missing" THEN data.articles
    ELSE IF data.results.kind # "missing" THEN data.results
    ELSE IF data.data.kind # "missing" THEN data.data
    ELSE ArrayField(<<>>)

RECURSIVE TotalTone(_)
TotalTone(items) ==
    IF Len(items) = 0 THEN 0
    ELSE TotalTone(Tail(items))
         + (IF ToneCounts(Head(items)) THEN PickTone(Head(items)).v ELSE 0)

ToneCount(items) == Len(SelectSeq(items, ToneCounts))

\* totalTone += parseFloat(tone): one NaN makes the total NaN
TotalIsNaN(items) ==
    \E k \in 1..Len(items) :
        ToneCounts(items[k]) /\ ParseFloatIsNaN(PickTone(items[k]))

\* Math.max(-1, Math.min(1, avgTone / 100))
ToneScore(items) ==
    IF TotalIsNaN(items) THEN NaN
    ELSE Clamp(R(TotalTone(items), ToneCount(items) * 100))

NoToneResult ==
    [status |-> "none", score |-> RZero, confidence |-> RZero, count |-> 0]
\* the neutral result after the loop
ToneNeutral ==
    [status |-> "ok", score |-> RZero, confidence |-> R(1, 10), count |-> 0]
ToneThrew == [NoToneResult EXCEPT !.status = "threw"]

\* one pass of the try block on a response: the result returned from inside
\* the loop, or NoToneResult when the loop goes on to the next query
ProcessResponse(resp) ==
    IF resp.kind # "json" THEN NoToneResult
    ELSE LET articles == BodyArticles(resp.data)
         IN  IF articles.kind # "array" \/ Len(articles.items) = 0
             THEN NoToneResult
             \* Object.keys(null) throws inside forEach; the catch continues
             ELSE IF \E k \in 1..Len(articles.items) : articles.items[k].isNull
             THEN NoToneResult
             ELSE LET count == ToneCount(articles.items)
                  IN  IF count > 0
                      THEN [status |-> "ok",
                            score |-> ToneScore(articles.items),
                            confidence |-> R(6, 10),
                            count |-> count]
                      ELSE NoToneResult

FetchEvent(q) == [type |-> "fetch", query |-> q, usable |-> FALSE, ms |-> 0]
DelayEvent == [type |-> "delay", query |-> <<>>, usable |-> FALSE, ms |-> DelayMs]
OutcomeEvent(usable) ==
    [type |-> "outcome", query |-> <<>>, usable |-> usable, ms |-> 0]

\* if (i > 0) await new Promise(resolve => setTimeout(resolve, 500))
MutNeedsDelayAfterSecond(i) == i > 1
NeedsDelay(i) == i > 0

\* the head of the for loop at index i: where the function goes next
LoopHead(i, qs, log) ==
    IF i >= Len(qs)
    THEN [pc |-> "done", log |-> log, result |-> ToneNeutral]
    ELSE IF NeedsDelay(i)
    THEN [pc |-> "delay", log |-> log, result |-> NoToneResult]
    ELSE [pc |-> "fetch", log |-> Append(log, FetchEvent(qs[i + 1])),
          result |-> NoToneResult]

(***************************************************************************)
(* Vectors 2, 4 and 5: the vectors that read the article's text            *)
(***************************************************************************)
\* text.length < 100
MinTextLen == 100

\* const conservativeKeywords = { ... }, in source order
conservativeKeywords ==
    <<
      [words |-> <<<<"f", "r", "e", "e">>, <<"m", "a", "r", "k", "e", "t">>>>,
          weight |-> R(8, 10)],
      [words |-> <<<<"d", "e", "r", "e", "g", "u", "l", "a", "t", "i", "o",
          "n">>>>, weight |-> R(7, 10)],
      [words |-> <<<<"t", "a", "x">>, <<"c", "u", "t", "s">>>>,
          weight |-> R(6, 10)],
      [words |-> <<<<"s", "m", "a", "l", "l">>, <<"g", "o", "v", "e", "r",
          "n", "m", "e", "n", "t">>>>, weight |-> R(8, 10)],
      [words |-> <<<<"c", "o", "n", "s", "t", "i", "t", "u", "t", "i", "o",
          "n", "a", "l">>, <<"r", "i", "g", "h", "t", "s">>>>, weight |-> R(7,
          10)],
      [words |-> <<<<"s", "e", "c", "o", "n", "d">>, <<"a", "m", "e", "n",
          "d", "m", "e", "n", "t">>>>, weight |-> R(9, 10)],
      [words |-> <<<<"p", "r", "o", "-", "l", "i", "f", "e">>>>,
          weight |-> R(8, 10)],
      [words |-> <<<<"t", "r", "a", "d", "i", "t", "i", "o", "n", "a", "l">>,
          <<"v", "a", "l", "u", "e", "s">>>>, weight |-> R(7, 10)],
      [words |-> <<<<"f", "a", "m", "i", "l", "y">>, <<"v", "a", "l", "u",
          "e", "s">>>>, weight |-> R(6, 10)],
      [words |-> <<<<"r", "e", "l", "i", "g", "i", "o", "u", "s">>, <<"f",
          "r", "e", "e", "d", "o", "m">>>>, weight |-> R(7, 10)],
      [words |-> <<<<"b", "o", "r", "d", "e", "r">>, <<"s", "e", "c", "u",
          "r", "i", "t", "y">>>>, weight |-> R(8, 10)],
      [words |-> <<<<"i", "l", "l", "e", "g", "a", "l">>, <<"i", "m", "m",
          "i", "g", "r", "a", "t", "i", "o", "n">>>>, weight |-> R(7, 10)],
      [words |-> <<<<"l", "a", "w">>, <<"a", "n", "d">>, <<"o", "r", "d", "e",
          "r">>>>, weight |-> R(7, 10)],
      [words |-> <<<<"f", "i", "s", "c", "a", "l">>, <<"r", "e", "s", "p",
          "o", "n", "s", "i", "b", "i", "l", "i", "t", "y">>>>,
          weight |-> R(6, 10)],
      [words |-> <<<<"d", "e", "f", "i", "c", "i", "t">>, <<"r", "e", "d",
          "u", "c", "t", "i", "o", "n">>>>, weight |-> R(6, 10)],
      [words |-> <<<<"d", "e", "r", "e", "g", "u", "l", "a", "t", "e">>>>,
          weight |-> R(7, 10)],
      [words |-> <<<<"b", "i", "g">>, <<"g", "o", "v", "e", "r", "n", "m",
          "e", "n", "t">>>>, weight |-> R(7, 10)],
      [words |-> <<<<"g", "o", "v", "e", "r", "n", "m", "e", "n", "t">>,
          <<"o", "v", "e", "r", "r", "e", "a", "c", "h">>>>, weight |-> R(8,
          10)],
      [words |-> <<<<"w", "e", "l", "f", "a", "r", "e">>, <<"s", "t", "a",
          "t", "e">>>>, weight |-> R(6, 10)],
      [words |-> <<<<"e", "n", "t", "i", "t", "l", "e", "m", "e", "n", "t">>,
          <<"p", "r", "o", "g", "r", "a", "m", "s">>>>, weight |-> R(5, 10)],
      [words |-> <<<<"s", "o", "c", "i", "a", "l", "i", "s", "m">>>>,
          weight |-> R(9, 10)],
      [words |-> <<<<"c", "o", "m", "m", "u", "n", "i", "s", "m">>>>,
          weight |-> R(9, 10)],
      [words |-> <<<<"m", "a", "i", "n", "s", "t", "r", "e", "a", "m">>,
          <<"m", "e", "d", "i", "a">>>>, weight |-> R(6, 10)],
      [words |-> <<<<"f", "a", "k", "e">>, <<"n", "e", "w", "s">>>>,
          weight |-> R(7, 10)],
      [words |-> <<<<"d", "e", "e", "p">>, <<"s", "t", "a", "t", "e">>>>,
          weight |-> R(8, 10)],
      [words |-> <<<<"r", "e", "p", "u", "b", "l", "i", "c", "a", "n">>,
          <<"p", "a", "r", "t", "y">>>>, weight |-> R(5, 10)],
      [words |-> <<<<"g", "o", "p">>>>, weight |-> R(5, 10)],
      [words |-> <<<<"c", "o", "n", "s", "e", "r", "v", "a", "t", "i", "v",
          "e">>>>, weight |-> R(6, 10)],
      [words |-> <<<<"t", "r", "u", "m", "p">>>>, weight |-> R(4, 10)],
      [words |-> <<<<"r", "e", "a", "g", "a", "n">>>>, weight |-> R(3, 10)],
      [words |-> <<<<"m", "c", "c", "o", "n", "n", "e", "l", "l">>>>,
          weight |-> R(3, 10)]
    >>

\* const liberalKeywords = { ... }, in source order
liberalKeywords ==
    <<
      [words |-> <<<<"s", "o", "c", "i", "a", "l">>, <<"j", "u", "s", "t",
          "i", "c", "e">>>>, weight |-> R(8, 10)],
      [words |-> <<<<"c", "l", "i", "m", "a", "t", "e">>, <<"a", "c", "t",
          "i", "o", "n">>>>, weight |-> R(7, 10)],
      [words |-> <<<<"r", "e", "n", "e", "w", "a", "b", "l", "e">>, <<"e",
          "n", "e", "r", "g", "y">>>>, weight |-> R(6, 10)],
      [words |-> <<<<"u", "n", "i", "v", "e", "r", "s", "a", "l">>, <<"h",
          "e", "a", "l", "t", "h", "c", "a", "r", "e">>>>, weight |-> R(8,
          10)],
      [words |-> <<<<"m", "e", "d", "i", "c", "a", "r", "e">>, <<"f", "o",
          "r">>, <<"a", "l", "l">>>>, weight |-> R(9, 10)],
      [words |-> <<<<"s", "i", "n", "g", "l", "e">>, <<"p", "a", "y", "e",
          "r">>>>, weight |-> R(8, 10)],
      [words |-> <<<<"g", "u", "n">>, <<"c", "o", "n", "t", "r", "o", "l">>>>,
          weight |-> R(7, 10)],
      [words |-> <<<<"g", "u", "n">>, <<"r", "e", "f", "o", "r", "m">>>>,
          weight |-> R(7, 10)],
      [words |-> <<<<"a", "s", "s", "a", "u", "l", "t">>, <<"w", "e", "a",
          "p", "o", "n", "s">>, <<"b", "a", "n">>>>, weight |-> R(8, 10)],
      [words |-> <<<<"p", "r", "o", "-", "c", "h", "o", "i", "c", "e">>>>,
          weight |-> R(8, 10)],
      [words |-> <<<<"r", "e", "p", "r", "o", "d", "u", "c", "t", "i", "v",
          "e">>, <<"r", "i", "g", "h", "t", "s">>>>, weight |-> R(8, 10)],
      [words |-> <<<<"l", "g", "b", "t", "q">>, <<"r", "i", "g", "h", "t",
          "s">>>>, weight |-> R(7, 10)],
      [words |-> <<<<"i", "m", "m", "i", "g", "r", "a", "t", "i", "o", "n">>,
          <<"r", "e", "f", "o", "r", "m">>>>, weight |-> R(6, 10)],
      [words |-> <<<<"p", "a", "t", "h", "w", "a", "y">>, <<"t", "o">>, <<"c",
          "i", "t", "i", "z", "e", "n", "s", "h", "i", "p">>>>,
          weight |-> R(7, 10)],
      [words |-> <<<<"d", "a", "c", "a">>>>, weight |-> R(6, 10)],
      [words |-> <<<<"m", "i", "n", "i", "m", "u", "m">>, <<"w", "a", "g",
          "e">>>>, weight |-> R(6, 10)],
      [words |-> <<<<"w", "o", "r", "k", "e", "r", "s">>, <<"r", "i", "g",
          "h", "t", "s">>>>, weight |-> R(6, 10)],
      [words |-> <<<<"u", "n", "i", "o", "n">>>>, weight |-> R(5, 10)],
      [words |-> <<<<"a", "f", "f", "o", "r", "d", "a", "b", "l", "e">>,
          <<"h", "o", "u", "s", "i", "n", "g">>>>, weight |-> R(6, 10)],
      [words |-> <<<<"i", "n", "c", "o", "m", "e">>, <<"i", "n", "e", "q",
          "u", "a", "l", "i", "t", "y">>>>, weight |-> R(7, 10)],
      [words |-> <<<<"w", "e", "a", "l", "t", "h">>, <<"t", "a", "x">>>>,
          weight |-> R(7, 10)],
      [words |-> <<<<"s", "y", "s", "t", "e", "m", "i", "c">>, <<"r", "a",
          "c", "i", "s", "m">>>>, weight |-> R(8, 10)],
      [words |-> <<<<"w", "h", "i", "t", "e">>, <<"p", "r", "i", "v", "i",
          "l", "e", "g", "e">>>>, weight |-> R(8, 10)],
      [words |-> <<<<"s", "y", "s", "t", "e", "m", "i", "c">>, <<"o", "p",
          "p", "r", "e", "s", "s", "i", "o", "n">>>>, weight |-> R(8, 10)],
      [words |-> <<<<"p", "a", "t", "r", "i", "a", "r", "c", "h", "y">>>>,
          weight |-> R(7, 10)],
      [words |-> <<<<"d", "i", "v", "e", "r", "s", "i", "t", "y">>, <<"a",
          "n", "d">>, <<"i", "n", "c", "l", "u", "s", "i", "o", "n">>>>,
          weight |-> R(6, 10)],
      [words |-> <<<<"e", "q", "u", "i", "t", "y">>>>, weight |-> R(7, 10)],
      [words |-> <<<<"p", "r", "o", "g", "r", "e", "s", "s", "i", "v",
          "e">>>>, weight |-> R(6, 10)],
      [words |-> <<<<"d", "e", "m", "o", "c", "r", "a", "t", "i", "c">>,
          <<"p", "a", "r", "t", "y">>>>, weight |-> R(4, 10)],
      [words |-> <<<<"d", "e", "m", "o", "c", "r", "a", "t", "s">>>>,
          weight |-> R(4, 10)],
      [words |-> <<<<"b", "i", "d", "e", "n">>>>, weight |-> R(3, 10)],
      [words |-> <<<<"s", "a", "n", "d", "e", "r", "s">>>>, weight |-> R(5,
          10)],
      [words |-> <<<<"a", "o", "c">>>>, weight |-> R(5, 10)],
      [words |-> <<<<"w", "a", "r", "r", "e", "n">>>>, weight |-> R(4, 10)]
    >>

\* const conservativePatterns = { ... }, in source order
conservativePatterns ==
    <<
      [words |-> <<<<"c", "l", "e", "a", "r", "l", "y">>>>, weight |-> R(3,
          10)],
      [words |-> <<<<"o", "b", "v", "i", "o", "u", "s", "l", "y">>>>,
          weight |-> R(3, 10)],
      [words |-> <<<<"u", "n", "d", "o", "u", "b", "t", "e", "d", "l",
          "y">>>>, weight |-> R(4, 10)],
      [words |-> <<<<"c", "e", "r", "t", "a", "i", "n", "l", "y">>>>,
          weight |-> R(2, 10)],
      [words |-> <<<<"e", "v", "e", "r", "y", "o", "n", "e">>, <<"k", "n",
          "o", "w", "s">>>>, weight |-> R(4, 10)],
      [words |-> <<<<"n", "o">>, <<"o", "n", "e">>, <<"c", "a", "n">>, <<"d",
          "e", "n", "y">>>>, weight |-> R(5, 10)],
      [words |-> <<<<"p", "e", "r", "s", "o", "n", "a", "l">>, <<"r", "e",
          "s", "p", "o", "n", "s", "i", "b", "i", "l", "i", "t", "y">>>>,
          weight |-> R(6, 10)],
      [words |-> <<<<"p", "u", "l", "l">>, <<"y", "o", "u", "r", "s", "e",
          "l", "f">>, <<"u", "p">>>>, weight |-> R(5, 10)],
      [words |-> <<<<"s", "e", "l", "f", "-", "r", "e", "l", "i", "a", "n",
          "c", "e">>>>, weight |-> R(5, 10)],
      [words |-> <<<<"t", "i", "m", "e", "-", "t", "e", "s", "t", "e",
          "d">>>>, weight |-> R(4, 10)],
      [words |-> <<<<"p", "r", "o", "v", "e", "n">>>>, weight |-> R(3, 10)],
      [words |-> <<<<"t", "r", "a", "d", "i", "t", "i", "o", "n", "a",
          "l">>>>, weight |-> R(4, 10)]
    >>

\* const liberalPatterns = { ... }, in source order
liberalPatterns ==
    <<
      [words |-> <<<<"s", "y", "s", "t", "e", "m", "i", "c">>>>,
          weight |-> R(5, 10)],
      [words |-> <<<<"i", "n", "s", "t", "i", "t", "u", "t", "i", "o", "n",
          "a", "l">>>>, weight |-> R(4, 10)],
      [words |-> <<<<"s", "t", "r", "u", "c", "t", "u", "r", "a", "l">>>>,
          weight |-> R(4, 10)],
      [words |-> <<<<"p", "r", "i", "v", "i", "l", "e", "g", "e">>>>,
          weight |-> R(5, 10)],
      [words |-> <<<<"m", "a", "r", "g", "i", "n", "a", "l", "i", "z", "e",
          "d">>>>, weight |-> R(5, 10)],
      [words |-> <<<<"o", "p", "p", "r", "e", "s", "s", "e", "d">>>>,
          weight |-> R(5, 10)],
      [words |-> <<<<"c", "o", "m", "m", "u", "n", "i", "t", "y">>>>,
          weight |-> R(3, 10)],
      [words |-> <<<<"s", "o", "l", "i", "d", "a", "r", "i", "t", "y">>>>,
          weight |-> R(5, 10)],
      [words |-> <<<<"c", "o", "l", "l", "e", "c", "t", "i", "v", "e">>>>,
          weight |-> R(4, 10)],
      [words |-> <<<<"t", "o", "g", "e", "t", "h", "e", "r">>, <<"w", "e">>>>,
          weight |-> R(4, 10)],
      [words |-> <<<<"w", "e">>, <<"m", "u", "s", "t">>>>, weight |-> R(3,
          10)],
      [words |-> <<<<"f", "o", "r", "w", "a", "r", "d", "-", "t", "h", "i",
          "n", "k", "i", "n", "g">>>>, weight |-> R(4, 10)],
      [words |-> <<<<"i", "n", "n", "o", "v", "a", "t", "i", "v", "e">>>>,
          weight |-> R(3, 10)],
      [words |-> <<<<"p", "r", "o", "g", "r", "e", "s", "s", "i", "v",
          "e">>>>, weight |-> R(5, 10)]
    >>

\* the word w stands at position i of s
WordAt(s, i, w) ==
    /\ i + Len(w) - 1 <= Len(s)
    /\ s[i] = w[1]
    /\ SubSeq(s, i, i + Len(w) - 1) = w

\* \s+ from position i: the first position after the run of white space
RECURSIVE SkipSpace(_, _)
SkipSpace(s, i) ==
    IF i <= Len(s) /\ s[i] \in Whitespace THEN SkipSpace(s, i + 1) ELSE i

\* keyword.replace(/\s+/g, '\\s+') matched from position i: the position
\* after the match, 0 when there is none
RECURSIVE MatchWords(_, _, _)
MatchWords(s, i, words) ==
    IF ~WordAt(s, i, words[1]) THEN 0
    ELSE LET j == i + Len(words[1])
         IN  IF Len(words) = 1 THEN j
             ELSE IF j <= Len(s) /\ s[j] \in Whitespace
                  THEN MatchWords(s, SkipSpace(s, j), Tail(words))
                  ELSE 0

\* \b between positions i - 1 and i
IsWordChar(s, i) == i >= 1 /\ i <= Len(s) /\ s[i] \in WordChars
WordBoundary(s, i) == IsWordChar(s, i - 1) # IsWordChar(s, i)

\* new RegExp(`\\b${...}\\b`, 'gi') matched from position i
RegexMatch(s, i, words) ==
    LET e == MatchWords(s, i, words)
    IN  IF e > 0 /\ WordBoundary(s, i) /\ WordBoundary(s, e) THEN e ELSE 0

\* the first position from i where the expression matches, 0 if none
NextMatch(s, i, words) ==
    LET starts == {j \in i..Len(s) : RegexMatch(s, j, words) > 0}
    IN  IF starts = {} THEN 0
        ELSE CHOOSE j \in starts : \A k \in starts : j <= k

\* (lowerText.match(regex) || []).length, the search resuming after a match
MutCountFirstMatchOnly(s, i, words) ==
    IF NextMatch(s, i, words) = 0 THEN 0 ELSE 1
RECURSIVE CountMatches(_, _, _)
CountMatches(s, i, words) ==
    LET j == NextMatch(s, i, words)
    IN  IF j = 0 THEN 0
        ELSE 1 + CountMatches(s, RegexMatch(s, j, words), words)

\* Object.entries(dictionary).forEach: score += matches * weight, over the
\* entries lo..hi (the sum is exact, so it is taken by halves)
RECURSIVE DictionarySum(_, _, _, _)
DictionarySum(s, dict, lo, hi) ==
    IF lo > hi THEN RZero
    ELSE IF lo = hi
    THEN RMul(RInt(CountMatches(s, 1, dict[lo].words)), dict[lo].weight)
    ELSE LET mid == (lo + hi) \div 2
         IN  RAdd(DictionarySum(s, dict, lo, mid),
                  DictionarySum(s, dict, mid + 1, hi))

NoVectorResult == [status |-> "none", score |-> RZero, confidence |-> RZero]
\* throw new Error('Text too short for ... analysis')
TextTooShort == [NoVectorResult EXCEPT !.status = "threw"]
Vector(s, c) == [status |-> "ok", score |-> s, confidence |-> c]

\* (liberal - conservative) / total, clamped
PolarityScore(liberal, conservative) ==
    Clamp(RDiv(RAdd(liberal, RNeg(conservative)), RAdd(conservative, liberal)))

analyzeContentKeywords(txt) ==
    IF Len(txt) < MinTextLen THEN TextTooShort
    ELSE LET lowerText == ToLowerCase(txt)
             conservativeScore ==
                 DictionarySum(lowerText, conservativeKeywords, 1,
                               Len(conservativeKeywords))
             liberalScore ==
                 DictionarySum(lowerText, liberalKeywords, 1,
                               Len(liberalKeywords))
             totalScore == RAdd(conservativeScore, liberalScore)
         IN  IF totalScore = RZero THEN Vector(RZero, R(1, 10))
             ELSE Vector(PolarityScore(liberalScore, conservativeScore),
                         RMin(RDiv(totalScore, RInt(20)), R(8, 10)))

MutLanguageKeepsContentCounts(txt) ==
    IF contentResult.status = "ok" THEN contentResult ELSE TextTooShort
analyzeLanguagePatterns(txt) ==
    IF Len(txt) < MinTextLen THEN TextTooShort
    ELSE LET lowerText == ToLowerCase(txt)
             conservativeCount ==
                 DictionarySum(lowerText, conservativePatterns, 1,
                               Len(conservativePatterns))
             liberalCount ==
                 DictionarySum(lowerText, liberalPatterns, 1,
                               Len(liberalPatterns))
             total == RAdd(conservativeCount, liberalCount)
         IN  IF total = RZero THEN Vector(RZero, R(1, 10))
             ELSE Vector(PolarityScore(liberalCount, conservativeCount),
                         RMin(RDiv(total, RInt(10)), R(5, 10)))

\* /(a|b|c)/i.test(lowerText)
TestAny(s, alternatives) == \E p \in alternatives : Includes(s, p)

hasEmotionalFraming(lowerText) ==
    TestAny(lowerText, {<<"o", "u", "t", "r", "a", "g", "e">>, <<"s", "c", "a", "n", "d", "a", "l">>, <<"c", "r", "i", "s", "i", "s">>, <<"d", "i", "s", "a", "s", "t", "e", "r">>})
hasVictimFraming(lowerText) ==
    TestAny(lowerText, {<<"v", "i", "c", "t", "i", "m">>, <<"v", "u", "l", "n", "e", "r", "a", "b", "l", "e">>, <<"a", "t", " ", "r", "i", "s", "k">>})
hasUsVsThem(lowerText) ==
    TestAny(lowerText,
            {<<"t", "h", "e", "y", " ", "w", "a", "n", "t">>, <<"t", "h", "e", "y", " ", "a", "r", "e">>, <<"t", "h", "e", " ", "l", "e", "f", "t">>, <<"t", "h", "e", " ", "r", "i", "g", "h", "t">>})
hasQuestionFraming(lowerText) ==
    TestAny(lowerText, {<<"w", "h", "y", " ", "w", "o", "u", "l", "d">>, <<"h", "o", "w", " ", "c", "o", "u", "l", "d">>})

\* the if / else if chain: framingScore and totalFraming
MutFramingAnyClass(lowerText) ==
    IF hasEmotionalFraming(lowerText) /\ hasUsVsThem(lowerText)
    THEN [framingScore |-> R(-3, 10), totalFraming |-> RInt(1)]
    ELSE IF hasVictimFraming(lowerText)
    THEN [framingScore |-> R(2, 10), totalFraming |-> RInt(1)]
    ELSE IF hasQuestionFraming(lowerText) \/ hasEmotionalFraming(lowerText)
            \/ hasUsVsThem(lowerText)
    THEN [framingScore |-> RZero, totalFraming |-> R(1, 2)]
    ELSE [framingScore |-> RZero, totalFraming |-> RZero]
Framing(lowerText) ==
    IF hasEmotionalFraming(lowerText) /\ hasUsVsThem(lowerText)
    THEN [framingScore |-> R(-3, 10), totalFraming |-> RInt(1)]
    ELSE IF hasVictimFraming(lowerText)
    THEN [framingScore |-> R(2, 10), totalFraming |-> RInt(1)]
    ELSE IF hasQuestionFraming(lowerText)
    THEN [framingScore |-> RZero, totalFraming |-> R(1, 2)]
    ELSE [framingScore |-> RZero, totalFraming |-> RZero]

analyzeFramingTechniques(txt) ==
    IF Len(txt) < MinTextLen THEN TextTooShort
    ELSE LET f == Framing(ToLowerCase(txt))
         IN  IF f.totalFraming = RZero THEN Vector(RZero, R(1, 10))
             ELSE Vector(f.framingScore, R(3, 10))

(***************************************************************************)
(* analyzeEmotionalCharge                                                  *)
(***************************************************************************)
\* const vaderLexicon = { ... }, in source order
vaderLexicon ==
    <<
      [word |-> <<"e", "x", "c", "e", "l", "l", "e", "n", "t">>,
          valence |-> R(25, 10)],
      [word |-> <<"a", "m", "a", "z", "i", "n", "g">>, valence |-> R(23, 10)],
      [word |-> <<"w", "o", "n", "d", "e", "r", "f", "u", "l">>,
          valence |-> R(22, 10)],
      [word |-> <<"f", "a", "n", "t", "a", "s", "t", "i", "c">>,
          valence |-> R(21, 10)],
      [word |-> <<"g", "r", "e", "a", "t">>, valence |-> R(19, 10)],
      [word |-> <<"l", "o", "v", "e">>, valence |-> R(21, 10)],
      [word |-> <<"b", "e", "s", "t">>, valence |-> R(18, 10)],
      [word |-> <<"p", "e", "r", "f", "e", "c", "t">>, valence |-> R(20, 10)],
      [word |-> <<"b", "r", "i", "l", "l", "i", "a", "n", "t">>,
          valence |-> R(20, 10)],
      [word |-> <<"o", "u", "t", "s", "t", "a", "n", "d", "i", "n", "g">>,
          valence |-> R(21, 10)],
      [word |-> <<"i", "n", "c", "r", "e", "d", "i", "b", "l", "e">>,
          valence |-> R(22, 10)],
      [word |-> <<"s", "h", "o", "c", "k", "i", "n", "g">>, valence |-> R(20,
          10)],
      [word |-> <<"d", "e", "v", "a", "s", "t", "a", "t", "i", "n", "g">>,
          valence |-> R(-25, 10)],
      [word |-> <<"t", "e", "r", "r", "i", "b", "l", "e">>, valence |-> R(-23,
          10)],
      [word |-> <<"h", "o", "r", "r", "i", "f", "i", "c">>, valence |-> R(-28,
          10)],
      [word |-> <<"a", "w", "f", "u", "l">>, valence |-> R(-21, 10)],
      [word |-> <<"d", "i", "s", "g", "u", "s", "t", "i", "n", "g">>,
          valence |-> R(-24, 10)],
      [word |-> <<"o", "u", "t", "r", "a", "g", "e", "o", "u", "s">>,
          valence |-> R(-20, 10)],
      [word |-> <<"a", "p", "p", "a", "l", "l", "i", "n", "g">>,
          valence |-> R(-22, 10)],
      [word |-> <<"h", "a", "t", "e">>, valence |-> R(-25, 10)],
      [word |-> <<"w", "o", "r", "s", "t">>, valence |-> R(-20, 10)],
      [word |-> <<"h", "o", "r", "r", "i", "b", "l", "e">>, valence |-> R(-23,
          10)],
      [word |-> <<"d", "i", "s", "a", "s", "t", "e", "r">>, valence |-> R(-21,
          10)],
      [word |-> <<"c", "r", "i", "s", "i", "s">>, valence |-> R(-18, 10)],
      [word |-> <<"t", "r", "a", "g", "e", "d", "y">>, valence |-> R(-22, 10)],
      [word |-> <<"s", "c", "a", "n", "d", "a", "l">>, valence |-> R(-19, 10)],
      [word |-> <<"e", "x", "t", "r", "e", "m", "e", "l", "y">>,
          valence |-> R(8, 10)],
      [word |-> <<"i", "n", "c", "r", "e", "d", "i", "b", "l", "y">>,
          valence |-> R(9, 10)],
      [word |-> <<"a", "b", "s", "o", "l", "u", "t", "e", "l", "y">>,
          valence |-> R(8, 10)],
      [word |-> <<"c", "o", "m", "p", "l", "e", "t", "e", "l", "y">>,
          valence |-> R(6, 10)],
      [word |-> <<"t", "o", "t", "a", "l", "l", "y">>, valence |-> R(7, 10)],
      [word |-> <<"v", "e", "r", "y">>, valence |-> R(3, 10)],
      [word |-> <<"h", "o", "w", "e", "v", "e", "r">>, valence |-> R(-2, 10)],
      [word |-> <<"b", "u", "t">>, valence |-> R(-3, 10)],
      [word |-> <<"a", "l", "t", "h", "o", "u", "g", "h">>, valence |-> R(-2,
          10)],
      [word |-> <<"n", "e", "v", "e", "r", "t", "h", "e", "l", "e", "s",
          "s">>, valence |-> R(-1, 10)],
      [word |-> <<"d", "e", "s", "p", "i", "t", "e">>, valence |-> R(-2, 10)]
    >>
\* -x
MutNegateOmitted(x) == x
Negate(x) == IF IsNumber(x) THEN RNeg(x) ELSE NaN
\* Math.abs(x)
MathAbs(x) == IF IsNumber(x) THEN [n |-> Abs(x.n), d |-> x.d] ELSE NaN

\* the values the loop computes with: a number, NaN, a string, an object,
\* undefined
JsNum(v) == [kind |-> "num", v |-> v]
JsNaN == [kind |-> "nan", v |-> RZero]
JsString == [kind |-> "string", v |-> RZero]
JsObject == [kind |-> "object", v |-> RZero]
JsUndefined == [kind |-> "undefined", v |-> RZero]

\* a * b
Times(a, b) ==
    IF a.kind = "num" /\ b.kind = "num" THEN JsNum(RMul(a.v, b.v)) ELSE JsNaN
\* a + b: with an object or a string on either side the result is a string
Plus(a, b) ==
    IF a.kind \in {"string", "object"} \/ b.kind \in {"string", "object"}
    THEN JsString
    ELSE IF a.kind = "num" /\ b.kind = "num" THEN JsNum(RAdd(a.v, b.v))
    ELSE JsNaN
\* a - b
Minus(a, b) ==
    IF a.kind = "num" /\ b.kind = "num" THEN JsNum(RAdd(a.v, RNeg(b.v)))
    ELSE JsNaN

\* the first position from i that holds white space, Len(s) + 1 if none
RECURSIVE SkipWord(_, _)
SkipWord(s, i) ==
    IF i <= Len(s) /\ s[i] \notin Whitespace THEN SkipWord(s, i + 1) ELSE i

\* .split(/\s+/).filter(w => w.length > 0)
RECURSIVE SplitWords(_, _)
SplitWords(s, i) ==
    LET start == SkipSpace(s, i)
    IN  IF start > Len(s) THEN <<>>
        ELSE LET end == SkipWord(s, start)
             IN  <<SubSeq(s, start, end - 1)>> \o SplitWords(s, end)

\* text.toLowerCase().replace(/[^\w\s]/g, ' ').split(/\s+/).filter(...)
Words(txt) == SplitWords(ReplaceNonWord(ToLowerCase(txt)), 1)

\* the names every object inherits from Object.prototype that a lower-case
\* token can spell
InheritedNames == {<<"c", "o", "n", "s", "t", "r", "u", "c", "t", "o", "r">>, <<"_", "_", "p", "r", "o", "t", "o", "_", "_">>}

\* vaderLexicon[word]
Lookup(word) ==
    IF \E k \in 1..Len(vaderLexicon) : vaderLexicon[k].word = word
    THEN JsNum(vaderLexicon[CHOOSE k \in 1..Len(vaderLexicon) :
                                vaderLexicon[k].word = word].valence)
    ELSE IF word \in InheritedNames THEN JsObject
    ELSE JsUndefined

\* vaderLexicon[words[i - 1]] > 0 && vaderLexicon[words[i - 1]] < 1
IsIntensifier(v) == v.kind = "num" /\ RLt(RZero, v.v) /\ RLt(v.v, RInt(1))

Negators == {<<"n", "o", "t">>, <<"n", "o">>, <<"n", "e", "v", "e", "r">>}

\* the body of the loop at index i (from 1), on the sums so far
LoopBody(words, i, acc) ==
    LET word == words[i]
        found == Lookup(word).kind # "undefined"
        score ==
            IF i > 1 /\ IsIntensifier(Lookup(words[i - 1]))
            THEN Times(Lookup(word), Plus(JsNum(RInt(1)), Lookup(words[i - 1])))
            ELSE Lookup(word)
        afterWord ==
            IF found
            THEN [compoundScore |-> Plus(acc.compoundScore, score),
                  wordCount |-> acc.wordCount + 1]
            ELSE acc
    IN  IF word \in Negators /\ i < Len(words)
           /\ Lookup(words[i + 1]).kind # "undefined"
        THEN [afterWord EXCEPT !.compoundScore =
                 Minus(afterWord.compoundScore,
                       Times(Lookup(words[i + 1]), JsNum(R(1, 2))))]
        ELSE afterWord

\* for (let i = 0; i < words.length; i++), iterations 1..k
RECURSIVE Loop(_, _)
Loop(words, k) ==
    IF k = 0 THEN [compoundScore |-> JsNum(RZero), wordCount |-> 0]
    ELSE LoopBody(words, k, Loop(words, k - 1))

\* Math.max(wordCount, 10)
MinDivisor == 10

\* compoundScore / Math.max(wordCount, 10)
Normalize(acc) ==
    IF acc.wordCount > 0
    THEN IF acc.compoundScore.kind = "num"
         THEN MathClamp(RDiv(acc.compoundScore.v,
                             RInt(IF acc.wordCount > MinDivisor
                                  THEN acc.wordCount ELSE MinDivisor)))
         ELSE NaN
    ELSE RZero

getEmotionalLabel(score) ==
    IF RLt(score, R(-6, 10)) THEN "Highly Emotional"
    ELSE IF RLt(score, R(-3, 10)) THEN "Emotionally Charged"
    ELSE IF RLt(score, R(-1, 10)) THEN "Somewhat Emotional"
    ELSE IF RLt(score, R(1, 10)) THEN "Neutral"
    ELSE IF RLt(score, R(3, 10)) THEN "Somewhat Analytical"
    ELSE IF RLt(score, R(6, 10)) THEN "Analytical"
    ELSE "Emotionless"

NoEmotionalResult ==
    [status |-> "none", score |-> RZero, label |-> "", intensity |-> RZero]

analyzeEmotionalCharge(txt) ==
    LET words == Words(txt)
        normalizedScore == Normalize(Loop(words, Len(words)))
        emotionalScore == Negate(normalizedScore)
    IN  [status |-> "ok",
         score |-> MathClamp(emotionalScore),
         label |-> getEmotionalLabel(emotionalScore),
         intensity |-> MathAbs(emotionalScore)]

(***************************************************************************)
(* analyzeGDELTTone against a tone service that answers as it likes        *)
(***************************************************************************)
MaxArticles == 2

TestArticles ==
    {Article(Num(50), Missing, Missing),
     Article(Num(-100), Missing, Missing),
     Article(Num(0), Missing, Missing),
     Article(Text, Missing, Missing),
     Article(True, Missing, Missing),
     Article(Missing, Missing, Missing),
     Article(Missing, Num(30), Missing),
     Article(Num(0), Num(30), Missing),
     Article(Missing, Missing, Num(-20)),
     NullArticle}
ArticleLists == UNION {[1..n -> TestArticles] : n \in 0..MaxArticles}

TestResponses ==
    {NetworkError, NotOk, BadJson}
    \cup {Json(Body(ArrayField(l), NoField, NoField)) : l \in ArticleLists}
    \cup {Json(Body(NoField, NoField, NoField)),
          Json(Body(OtherField, NoField, NoField)),
          Json(Body(NoField, ArrayField(<<Article(Num(50), Missing, Missing)>>),
                    NoField)),
          Json(Body(NoField, NoField,
                    ArrayField(<<Article(Num(-100), Missing, Missing)>>))),
          Json(Body(ArrayField(<<>>),
                    ArrayField(<<Article(Num(50), Missing, Missing)>>),
                    NoField))}

ShortTitle == <<"B", "u", "d", "g", "e", "t">>
LongTitle ==
    <<"S", "e", "n", "a", "t", "e", " ", "p", "a", "s", "s", "e",
      "s", " ", "b", "u", "d", "g", "e", "t", " ", "b", "i", "l",
      "l">>
TestTitles == {NoString, Str(ShortTitle), Str(LongTitle)}
ArticlePath ==
    <<"/", "p", "o", "l", "i", "t", "i", "c", "s", "/", "2", "0",
      "2", "5", "/", "s", "e", "n", "a", "t", "e", "-", "b", "u",
      "d", "g", "e", "t", "-", "v", "o", "t", "e">>
TestUrls == {NoUrl, BadUrl, Url(<<"/">>), Url(ArticlePath)}
LongText ==
    <<"T", "h", "e", " ", "s", "e", "n", "a", "t", "e", " ", "p",
      "a", "s", "s", "e", "d", " ", "t", "h", "e", " ", "b", "u",
      "d", "g", "e", "t", " ", "b", "i", "l", "l", " ", "o", "n",
      " ", "T", "u", "e", "s", "d", "a", "y", ",", " ", "a", "f",
      "t", "e", "r", " ", "w", "e", "e", "k", "s", " ", "o", "f",
      " ", "d", "e", "b", "a", "t", "e", ";", " ", "c", "r", "i",
      "t", "i", "c", "s", " ", "c", "a", "l", "l", "e", "d", " ",
      "i", "t", " ", "a", " ", "d", "i", "s", "a", "s", "t", "e",
      "r", ",", " ", "w", "h", "i", "l", "e", " ", "s", "u", "p",
      "p", "o", "r", "t", "e", "r", "s", " ", "s", "a", "i", "d",
      " ", "t", "h", "e", " ", "f", "r", "e", "e", " ", "m", "a",
      "r", "k", "e", "t", " ", "w", "o", "u", "l", "d", " ", "b",
      "e", "n", "e", "f", "i", "t", " ", "f", "r", "o", "m", " ",
      "t", "a", "x", " ", "c", "u", "t", "s", ".">>
TestTexts ==
    {<<>>,
     <<"S", "h", "o", "r", "t", " ", "t", "e", "x", "t">>,
     <<"B", "u", "d", "g", "e", "t", " ", "v", "o", "t", "e", "!">>,
     LongText}

(***************************************************************************)
(* The text vectors on articles assembled from phrases                     *)
(***************************************************************************)
MaxPhrases == 2

\* more than 100 characters, none of them part of a keyword or a pattern
Filler ==
    <<"T", "h", "e", " ", "c", "o", "u", "n", "c", "i", "l", " ", "m", "e",
      "t", " ", "o", "n", " ", "T", "u", "e", "s", "d", "a", "y", " ", "t",
      "o", " ", "r", "e", "v", "i", "e", "w", " ", "t", "h", "e", " ", "a",
      "n", "n", "u", "a", "l", " ", "r", "e", "p", "o", "r", "t", " ", "a",
      "n", "d", " ", "h", "e", "a", "r", "d", " ", "c", "o", "m", "m", "e",
      "n", "t", "s", " ", "f", "r", "o", "m", " ", "r", "e", "s", "i", "d",
      "e", "n", "t", "s", " ", "a", "b", "o", "u", "t", " ", "p", "a", "r",
      "k", "i", "n", "g", " ", "a", "n", "d", " ", "r", "o", "a", "d", " ",
      "r", "e", "p", "a", "i", "r", "s", ".", " ">>

TestPhrases ==
    {<<"f", "r", "e", "e", " ", "m", "a", "r", "k", "e", "t">>,
     <<"T", "a", "x", " ", " ", "c", "u", "t", "s">>,
     <<"S", "o", "c", "i", "a", "l", "i", "s", "m">>,
     <<"u", "n", "i", "o", "n">>,
     <<"r", "e", "u", "n", "i", "o", "n">>,
     <<"M", "e", "d", "i", "c", "a", "r", "e", " ", "f", "o", "r", "\n", "a",
       "l", "l", ".">>,
     <<"c", "r", "i", "s", "i", "s">>,
     <<"t", "h", "e", "y", " ", "w", "a", "n", "t">>,
     <<"v", "i", "c", "t", "i", "m">>,
     <<"W", "h", "y", " ", "w", "o", "u", "l", "d">>,
     <<"c", "l", "e", "a", "r", "l", "y">>,
     <<"s", "y", "s", "t", "e", "m", "i", "c">>}

RECURSIVE Repeat(_, _)
Repeat(s, n) == IF n = 0 THEN <<>> ELSE s \o Repeat(s, n - 1)

PhraseLists == UNION {[1..n -> TestPhrases] : n \in 0..MaxPhrases}
ArticleTexts ==
    {pad \o Join(l, <<" ">>) : pad \in {<<>>, Filler}, l \in PhraseLists}
    \cup {Repeat(<<"S", "o", "c", "i", "a", "l", "i", "s", "m", ",", " ">>,
                   18),
          Repeat(<<"s", "y", "s", "t", "e", "m", "i", "c", " ">>, 12),
          Repeat(<<"h", "o", "w", " ", "c", "o", "u", "l", "d", " ", "t", "h",
                   "e", " ", "l", "e", "f", "t", "?", " ">>, 5)}

(***************************************************************************)
(* analyzeEmotionalCharge on texts assembled from words                    *)
(***************************************************************************)
MaxWords == 3

TestWords ==
    {<<"E", "x", "c", "e", "l", "l", "e", "n", "t">>,
     <<"h", "o", "r", "r", "i", "f", "i", "c", ",">>,
     <<"v", "e", "r", "y">>,
     <<"n", "o", "t">>,
     <<"h", "o", "w", "e", "v", "e", "r">>,
     <<"b", "u", "d", "g", "e", "t">>,
     <<"c", "o", "n", "s", "t", "r", "u", "c", "t", "o", "r">>}

WordLists == UNION {[1..n -> TestWords] : n \in 0..MaxWords}
\* texts whose score falls on a threshold of the labels
BoundaryTexts ==
    {<<"A", "m", "a", "z", "i", "n", "g", " ", "g", "r", "e", "a", "t", " ",
       "b", "e", "s", "t">>,
     <<"a", "m", "a", "z", "i", "n", "g", " ", "t", "o", "t", "a", "l", "l",
       "y">>,
     <<"n", "o", "t", " ", "p", "e", "r", "f", "e", "c", "t">>,
     <<"b", "e", "s", "t", " ", "h", "o", "r", "r", "i", "f", "i", "c">>,
     <<"h", "o", "r", "r", "i", "f", "i", "c", " ", "h", "o", "w", "e", "v",
       "e", "r">>,
     <<"t", "e", "r", "r", "i", "b", "l", "e", " ", "c", "r", "i", "s", "i",
       "s", " ", "s", "c", "a", "n", "d", "a", "l">>}

EmotionTexts ==
    {Join(l, <<" ">>) : l \in WordLists}
    \cup BoundaryTexts
    \cup {Repeat(<<"h", "o", "r", "r", "i", "f", "i", "c", " ">>, 12),
          Repeat(<<"A", "m", "a", "z", "i", "n", "g", "!", " ">>, 11),
          Repeat(<<"a", "w", "f", "u", "l", " ", " ">>, 4),
          <<" ", "\n", " ">>}

(***************************************************************************)
(* analyzeBiasMultiVector on whole articles                                *)
(***************************************************************************)
PipelineTexts ==
    {Filler,
     Filler \o <<" ", "f", "r", "e", "e", " ", "m", "a", "r", "k", "e", "t",
                " ", "T", "a", "x", " ", "c", "u", "t", "s", ",", " ", "a",
                " ", "t", "e", "r", "r", "i", "b", "l", "e", " ", "c", "r",
                "i", "s", "i", "s", ":", " ", "t", "h", "e", "y", " ", "w",
                "a", "n", "t", " ", "i", "t">>,
     Filler \o <<" ", "M", "e", "d", "i", "c", "a", "r", "e", " ", "f", "o",
                "r", " ", "a", "l", "l", " ", "i", "s", " ", "s", "y", "s",
                "t", "e", "m", "i", "c", ".", " ", "W", "h", "y", " ", "w",
                "o", "u", "l", "d", " ", "a", " ", "v", "i", "c", "t", "i",
                "m", "?", " ", "A", "m", "a", "z", "i", "n", "g">>,
     <<"S", "o", "c", "i", "a", "l", "i", "s", "m", " ", "c", "r", "i", "s",
       "i", "s">>}

PipelineDomains ==
    {<<"w", "w", "w", ".", "c", "n", "n", ".", "c", "o", "m">>,
     <<"f", "o", "x", "5", ".", "c", "o", "m">>,
     <<"r", "a", "n", "d", "o", "m", "b", "l", "o", "g", ".", "n", "e", "t">>}

\* what the tone vector left in its slot: the neutral result, or a mean tone
ToneSlots ==
    {VectorResult(RZero, R(1, 10)), VectorResult(R(-1, 2), R(6, 10))}

(***************************************************************************)
(* The cache: getCacheKey, getCachedAnalysis, setCachedAnalysis, clearCache*)
(***************************************************************************)
CACHE_PREFIX == <<"e", "c", "h", "o", "a", "i", "_", "c", "a", "c", "h", "e", "_">>
\* 7 * 24 * 60 * 60 * 1000
CACHE_EXPIRY_MS == 604800000

\* the first position of s holding a character of set, Len(s) + 1 if none
FirstOf(s, set) ==
    LET hits == {i \in 1..Len(s) : s[i] \in set}
    IN  IF hits = {} THEN Len(s) + 1
        ELSE CHOOSE i \in hits : \A j \in hits : i <= j

SchemeHttp == <<"h", "t", "t", "p">>
SchemeHttps == <<"h", "t", "t", "p", "s">>
DefaultPort(scheme) == IF scheme = SchemeHttp THEN <<"8", "0">> ELSE <<"4", "4", "3">>

NotAUrl == [valid |-> FALSE, origin |-> <<>>, pathname |-> <<>>]

\* new URL(href) for the schemes http and https: the scheme and the host in
\* lower case, a default port dropped, the path up to '?' or '#', '/' when
\* it is empty; anything else throws
ParseUrl(href) ==
    LET colon == FirstOf(href, {":"})
        scheme == ToLowerCase(SubSeq(href, 1, colon - 1))
        rest == SubSeq(href, colon + 1, Len(href))
        afterSlashes == SubSeq(rest, 3, Len(rest))
        hostEnd == FirstOf(afterSlashes, {"/", "?", "#"})
        authority == ToLowerCase(SubSeq(afterSlashes, 1, hostEnd - 1))
        portAt == FirstOf(authority, {":"})
        host == SubSeq(authority, 1, portAt - 1)
        port == SubSeq(authority, portAt + 1, Len(authority))
        tail == SubSeq(afterSlashes, hostEnd, Len(afterSlashes))
        path == SubSeq(tail, 1, FirstOf(tail, {"?", "#"}) - 1)
    IN  IF \/ scheme \notin {SchemeHttp, SchemeHttps}
           \/ ~StartsWith(rest, <<"/", "/">>)
           \/ host = <<>>
           \/ ~AllIn(port, Digits)
        THEN NotAUrl
        ELSE [valid |-> TRUE,
              origin |->
                  scheme \o <<":", "/", "/">> \o host
                  \o (IF port = <<>> \/ port = DefaultPort(scheme) THEN <<>>
                      ELSE <<":">> \o port),
              pathname |-> IF path = <<>> THEN <<"/">> ELSE path]

\* CACHE_PREFIX + url when url is undefined
Undefined == <<"u", "n", "d", "e", "f", "i", "n", "e", "d">>

\* try { new URL(url) ... origin + pathname } catch (e) { CACHE_PREFIX + url }
MutCacheKeyOfHref(url) ==
    CACHE_PREFIX \o (IF url.present THEN url.s ELSE Undefined)
getCacheKey(url) ==
    IF ~url.present THEN CACHE_PREFIX \o Undefined
    ELSE LET urlObj == ParseUrl(url.s)
         IN  IF urlObj.valid
             THEN CACHE_PREFIX \o urlObj.origin \o urlObj.pathname
             ELSE CACHE_PREFIX \o url.s

\* chrome.storage.local as the worker writes it: the value under a key
NoAnalysis ==
    [made |-> FALSE,
     timestamp |-> 0,
     bias |-> [assigned |-> FALSE, success |-> FALSE,
               score |-> [kind |-> "null", v |-> [n |-> 0, d |-> 1]],
               source |-> ""],
     emotionalCharge |-> [assigned |-> FALSE, success |-> FALSE,
                          score |-> [kind |-> "null", v |-> [n |-> 0, d |-> 1]],
                          source |-> ""],
     neutralSummary |-> [assigned |-> FALSE, kind |-> "undefined"],
     opposingViewpoint |-> [assigned |-> FALSE, kind |-> "undefined"],
     opposingArticles |-> [assigned |-> FALSE, kind |-> "undefined"],
     errors |-> <<>>]
NoEntry == [kind |-> "none", data |-> NoAnalysis, timestamp |-> 0, value |-> ""]
\* { data: data, timestamp: Date.now() }
CacheEntry(data, t) ==
    [kind |-> "cache", data |-> data, timestamp |-> t, value |-> ""]
\* { geminiApiKey: message.apiKey }
KeyEntry(apiKey) ==
    [kind |-> "apiKey", data |-> NoAnalysis, timestamp |-> 0, value |-> apiKey]
ApiKeyName == <<"g", "e", "m", "i", "n", "i", "A", "p", "i", "K", "e", "y">>

MutExpiredAtSevenDays(cached, t) ==
    cached.timestamp # 0 /\ t - cached.timestamp >= CACHE_EXPIRY_MS
\* cached.timestamp && (now - cached.timestamp) > CACHE_EXPIRY_MS
Expired(cached, t) ==
    cached.timestamp # 0 /\ t - cached.timestamp > CACHE_EXPIRY_MS

\* getCachedAnalysis once chrome.storage.local.get has answered with store:
\* the data returned (NoAnalysis for null) and whether the entry is removed
\* the body of getCachedAnalysis once the key is computed
cachedUnder(store, key, t) ==
    LET cached == store[key]
    IN  IF cached.kind = "none" THEN [data |-> NoAnalysis, remove |-> FALSE]
        ELSE IF Expired(cached, t) THEN [data |-> NoAnalysis, remove |-> TRUE]
        ELSE [data |-> cached.data, remove |-> FALSE]
getCachedAnalysis(store, url, t) == cachedUnder(store, getCacheKey(url), t)

\* await chrome.storage.local.remove([key])
Remove(store, keys) ==
    [k \in DOMAIN store |-> IF k \in keys THEN NoEntry ELSE store[k]]

\* await chrome.storage.local.set({ [key]: cacheEntry })
setCachedAnalysis(store, url, data, t) ==
    [store EXCEPT ![getCacheKey(url)] = CacheEntry(data, t)]

\* Object.keys(allData).filter(key => key.startsWith(CACHE_PREFIX))
keysToRemove(allData) ==
    {k \in DOMAIN allData :
        allData[k].kind # "none" /\ StartsWith(k, CACHE_PREFIX)}

(***************************************************************************)
(* analyzeArticle: four stages, each in a try block of its own             *)
(***************************************************************************)
\* score: null
Null == [kind |-> "null", v |-> RZero]
Score(x) == [kind |-> "number", v |-> x]

\* the object a stage's try block assigns, and the one its catch block does
Succeeded(score, source) ==
    [assigned |-> TRUE, success |-> TRUE, score |-> Score(score),
     source |-> source]
MutFailedKeepsSuccess ==
    [assigned |-> TRUE, success |-> TRUE, score |-> Null, source |-> "error"]
Failed ==
    [assigned |-> TRUE, success |-> FALSE, score |-> Null, source |-> "error"]

\* the value of a summary: what callGeminiAPI returned, or the catch block's
\* 'Unable to generate ...' text
Generated(kind) == [assigned |-> TRUE, kind |-> kind]
UnableToGenerate == [assigned |-> TRUE, kind |-> "unable"]

\* the list fetchOpposingArticles returned, or the catch block's []
Articles(kind) == [assigned |-> TRUE, kind |-> kind]
NoArticles == [assigned |-> TRUE, kind |-> "empty"]

\* analysis.errors.push(`<stage>: ${error.message}`)
PoliticalError == "Political Analysis"
EmotionalError == "Emotional Analysis"
SummaryError == "Summary Generation"
OpposingError == "Opposing Articles"

\* let geminiApiKey = null
NoKey == ""

\* a code unit that encodeURIComponent rejects with a URIError
LoneSurrogate == "uD800"
\* encodeURIComponent(metadata.title || 'opposing viewpoint') throws
TitleThrows(md) ==
    md.title.present /\ \E i \in 1..Len(md.title.s) : md.title.s[i] = LoneSurrogate

\* the catch block of fetchOpposingArticles: a search link, unless building
\* it throws in turn
OpposingCaught(md) ==
    IF TitleThrows(md) THEN [threw |-> TRUE, list |-> NoArticles]
    ELSE [threw |-> FALSE, list |-> Articles("fallbackLink")]

(***************************************************************************)
(* analyzeBiasGDELT on whole articles, the tone service answering          *)
(***************************************************************************)
Article1Text == Filler \o <<" ", "f", "r", "e", "e", " ", "m", "a", "r", "k", "e", "t", ":",
                           " ", "t", "h", "e", "y", " ", "w", "a", "n", "t", " ",
                           "a", " ", "c", "r", "i", "s", "i", "s">>
ShortText == <<"S", "o", "c", "i", "a", "l", "i", "s", "m", " ", "c", "r", "i", "s", "i", "s">>
Page(txt, domain, title, url) ==
    [text |-> txt,
     metadata |-> [domain |-> domain, title |-> title, url |-> url]]
\* a long article of a known publisher, one query; a short text on an
\* unknown domain, three queries; a url that new URL() rejects; an empty page
TestPages ==
    {Page(Article1Text, <<"f", "o", "x", "5", ".", "c", "o", "m">>, NoString, NoUrl),
     Page(ShortText,
          <<"r", "a", "n", "d", "o", "m", "b", "l", "o", "g", ".", "n", "e", "t">>,
          Str(LongTitle), Url(ArticlePath)),
     Page(ShortText, <<"w", "w", "w", ".", "c", "n", "n", ".", "c", "o", "m">>,
          Str(ShortTitle), BadUrl),
     Page(<<>>, <<>>, NoString, NoUrl)}

(***************************************************************************)
(* analyzeArticle and the cache on whole pages and urls                    *)
(***************************************************************************)
\* the string behind a page's metadata.url
PageHref(md) ==
    IF ~md.url.present THEN NoString
    ELSE IF ~md.url.valid THEN Str(<<"n", "o", "t", " ", "a", " ", "u", "r", "l">>)
    ELSE Str(<<"h", "t", "t", "p", "s", ":", "/", "/">> \o md.domain \o md.url.pathname)

\* pages of at most one tone query: a long article of a known publisher, a
\* url that new URL() rejects, a url it accepts, an empty page, and a title
\* that encodeURIComponent rejects
ArticlePages ==
    {Page(Article1Text, <<"f", "o", "x", "5", ".", "c", "o", "m">>, NoString, NoUrl),
     Page(ShortText, <<"w", "w", "w", ".", "c", "n", "n", ".", "c", "o", "m">>, Str(ShortTitle), BadUrl),
     Page(<<>>, <<"w", "w", "w", ".", "c", "n", "n", ".", "c", "o", "m">>, NoString, Url(ArticlePath)),
     Page(<<>>, <<>>, NoString, NoUrl),
     Page(ShortText, <<"r", "a", "n", "d", "o", "m", "b", "l", "o", "g", ".", "n", "e", "t">>, Str(<<LoneSurrogate>>), NoUrl)}

HrefArticle == Str(<<"h", "t", "t", "p", "s", ":", "/", "/", "a", ".", "c", "o", "/", "x">>)
HrefQuery == Str(<<"h", "t", "t", "p", "s", ":", "/", "/", "a", ".", "c", "o", "/", "x", "?", "q", "=", "1">>)
HrefFragment == Str(<<"h", "t", "t", "p", "s", ":", "/", "/", "a", ".", "c", "o", "/", "x", "#", "t", "o", "p">>)
HrefUpper == Str(<<"H", "T", "T", "P", "S", ":", "/", "/", "A", ".", "c", "o", ":", "4", "4", "3", "/", "x">>)
HrefOtherPath == Str(<<"h", "t", "t", "p", "s", ":", "/", "/", "a", ".", "c", "o", "/", "y">>)
HrefOtherScheme == Str(<<"h", "t", "t", "p", ":", "/", "/", "a", ".", "c", "o", "/", "x">>)
HrefOtherHost == Str(<<"h", "t", "t", "p", "s", ":", "/", "/", "b", ".", "c", "o", "/", "x">>)
HrefOtherPort == Str(<<"h", "t", "t", "p", "s", ":", "/", "/", "a", ".", "c", "o", ":", "8", "4", "4", "3", "/", "x">>)
HrefBare == Str(<<"h", "t", "t", "p", "s", ":", "/", "/", "a", ".", "c", "o">>)
HrefRoot == Str(<<"h", "t", "t", "p", "s", ":", "/", "/", "a", ".", "c", "o", "/">>)
HrefUnparseable == Str(<<"a", ".", "c", "o", "/", "x", "?", "q", "=", "1">>)
\* urls that differ in the query, the fragment, the case of the scheme and the
\* host, the default port; in the path, the scheme, the host, the port; urls
\* without a path; a string new URL() rejects; undefined
TestHrefs ==
    {HrefArticle, HrefQuery, HrefFragment,
     HrefUpper, HrefOtherPath, HrefOtherScheme,
     HrefOtherHost, HrefOtherPort, HrefBare,
     HrefRoot, HrefUnparseable,
     NoString}

\* the keys chrome.storage.local gets in a run
StorageKeys ==
    {getCacheKey(url) : url \in TestHrefs}
    \cup {getCacheKey(PageHref(page.metadata)) : page \in ArticlePages}
    \cup {ApiKeyName}
TestApiKeys == {"key-1", "key-2"}

(***************************************************************************)
(* Specifications                                                          *)
(***************************************************************************)
\* let politicalBias = null
NoBias == [status |-> "none", score |-> RZero, label |-> "", source |-> ""]

\* a call that reads no metadata, no text
NoMetadata == [domain |-> <<>>, title |-> NoString, url |-> NoUrl]
AllAbsent == [name \in NameSet |-> Absent]

combineIdle == vectors = AllAbsent /\ combined = NoResult
domainIdle == domainResult = NoDomainResult
toneCallIdle ==
    /\ toneQueries = <<>>
    /\ toneI = 0
    /\ tonePc = "idle"
    /\ toneLog = <<>>
    /\ toneLast = NoResponse
    /\ toneResult = NoToneResult
toneIdle == text = <<>> /\ toneCallIdle
textIdle ==
    /\ contentResult = NoVectorResult
    /\ languageResult = NoVectorResult
    /\ framingResult = NoVectorResult
emotionIdle == emotionalResult = NoEmotionalResult
\* no call of analyzeArticle
articleIdle ==
    /\ politicalBias = NoBias
    /\ textIsString = TRUE
    /\ articlePc = "idle"
    /\ analysis = NoAnalysis
    /\ stages = <<>>
    /\ returned = NoAnalysis
EmptyStorage == [k \in StorageKeys |-> NoEntry]
\* a worker with no key, nothing stored
StartMs == 1
workerIdle ==
    /\ geminiApiKey = NoKey
    /\ storage = EmptyStorage
    /\ now = StartMs
    /\ storageDown = FALSE
\* the ids of the calls a run receives
CallIds == {1, 2, 3}
\* sendResponse not called yet
NoReply == [sent |-> FALSE, success |-> FALSE, analysis |-> NoAnalysis]
\* sendResponse({ success: ..., analysis: ... })
Reply(success, data) == [sent |-> TRUE, success |-> success, analysis |-> data]
\* a call of the onMessage listener: the message, its cache key, where its
\* handler is, what it holds, whether the catch block of getCachedAnalysis
\* ran
NoCall ==
    [type |-> "none", url |-> NoString, key |-> <<>>, apiKey |-> NoKey,
     pc |-> "none",
     after |-> {}, data |-> NoAnalysis, ranStages |-> FALSE, keys |-> {},
     caught |-> FALSE, response |-> NoReply]
callsIdle == calls = [i \in CallIds |-> NoCall]
\* a page the content script has just been injected into: the load timer
\* is pending
NoPage == ""
pageIdle ==
    /\ isProcessing = FALSE
    /\ locationHref = NoPage
    /\ lastUrl = NoPage
    /\ longText = FALSE
    /\ timers = 0
    /\ outstanding = <<>>
    /\ lastUpdate = NoPage
\* the polling sessions a run starts
SessionIds == {1, 2}
NoSession == [state |-> "none", attempts |-> 0, pending |-> 0]
\* the pane the sidebar shows, and the text of the error pane while it is
\* the one shown
View(shown, message) == [shown |-> shown, message |-> message]
Button(label, disabled) == [text |-> label, disabled |-> disabled]
NoSave == [key |-> "", outcome |-> "none", requested |-> FALSE]
\* a sidebar that shows its loading state and has started nothing
sidebarIdle ==
    /\ view = View("loading", "")
    /\ saveButton = Button("Save", FALSE)
    /\ apiKeyInput = <<>>
    /\ savePc = "idle"
    /\ lastSave = NoSave
    /\ sessions = [id \in SessionIds |-> NoSession]
    /\ extracting = 0
clientIdle == pageIdle /\ sidebarIdle
appIdle == articleIdle /\ workerIdle /\ callsIdle /\ clientIdle

combineVars == <<vectors, combined>>
toneVars == <<text, toneQueries, toneI, tonePc, toneLog, toneLast, toneResult>>
textVars == <<contentResult, languageResult, framingResult>>

InitCombine ==
    /\ vectors \in [NameSet -> InputSlots]
    /\ combined = NoResult
    /\ metadata = NoMetadata
    /\ domainIdle
    /\ toneIdle
    /\ textIdle
    /\ emotionIdle
    /\ appIdle

CombineVectors ==
    /\ combined.status = "none"
    /\ combined' = combineVectors(vectors, weights)
    /\ UNCHANGED appVars
    /\ UNCHANGED <<vectors, metadata, domainResult, toneVars, textVars,
                   emotionalResult>>

NextCombine == CombineVectors

SpecCombine == InitCombine /\ [][NextCombine]_vars

InitDomain ==
    /\ metadata \in {[NoMetadata EXCEPT !.domain = d] : d \in TestDomains}
    /\ domainResult = NoDomainResult
    /\ combineIdle
    /\ toneIdle
    /\ textIdle
    /\ emotionIdle
    /\ appIdle

AnalyzeDomainBias ==
    /\ domainResult.status = "none"
    /\ domainResult' = analyzeDomainBias(metadata)
    /\ UNCHANGED appVars
    /\ UNCHANGED <<combineVars, metadata, toneVars, textVars, emotionalResult>>

NextDomain == AnalyzeDomainBias

SpecDomain == InitDomain /\ [][NextDomain]_vars

InitTone ==
    /\ metadata \in {[NoMetadata EXCEPT !.title = t, !.url = u] :
                        t \in TestTitles, u \in TestUrls}
    /\ text \in TestTexts
    /\ toneQueries = <<>>
    /\ toneI = 0
    /\ tonePc = "idle"
    /\ toneLog = <<>>
    /\ toneLast = NoResponse
    /\ toneResult = NoToneResult
    /\ combineIdle
    /\ domainIdle
    /\ textIdle
    /\ emotionIdle
    /\ appIdle

\* the call, up to its first await or its return
ToneStart ==
    /\ tonePc = "idle"
    /\ IF QueriesThrow(metadata)
       THEN /\ tonePc' = "done"
            /\ toneResult' = ToneThrew
            /\ UNCHANGED <<toneQueries, toneLog>>
       ELSE LET qs == BuildQueries(text, metadata)
                head == LoopHead(0, qs, <<>>)
            IN  /\ toneQueries' = qs
                /\ tonePc' = head.pc
                /\ toneLog' = head.log
                /\ toneResult' = head.result
    /\ UNCHANGED appVars
    /\ UNCHANGED <<text, toneI, toneLast, metadata, combineVars, domainResult,
                   textVars, emotionalResult>>

\* the timer of the delay fires: the query is sent
ToneDelayElapsed ==
    /\ tonePc = "delay"
    /\ tonePc' = "fetch"
    /\ toneLog' = toneLog \o <<DelayEvent, FetchEvent(toneQueries[toneI + 1])>>
    /\ UNCHANGED appVars
    /\ UNCHANGED <<text, toneQueries, toneI, toneLast, toneResult, metadata,
                   combineVars, domainResult, textVars, emotionalResult>>

\* the fetch settles: the rest of the try block, then the next loop head
ToneFetchSettles ==
    /\ tonePc = "fetch"
    /\ \E resp \in TestResponses :
        LET got == ProcessResponse(resp)
        IN  /\ toneLast' = resp
            /\ IF got.status = "ok"
               THEN /\ toneResult' = got
                    /\ tonePc' = "done"
                    /\ toneLog' = Append(toneLog, OutcomeEvent(TRUE))
                    /\ UNCHANGED toneI
               ELSE LET head == LoopHead(toneI + 1, toneQueries,
                                         Append(toneLog, OutcomeEvent(FALSE)))
                    IN  /\ toneI' = toneI + 1
                        /\ tonePc' = head.pc
                        /\ toneLog' = head.log
                        /\ toneResult' = head.result
    /\ UNCHANGED appVars
    /\ UNCHANGED <<text, toneQueries, metadata, combineVars, domainResult,
                   textVars, emotionalResult>>

NextTone == ToneStart \/ ToneDelayElapsed \/ ToneFetchSettles

SpecTone == InitTone /\ [][NextTone]_vars

\* the three calls that read the text, in the order analyzeBiasMultiVector
\* makes them
InitText ==
    /\ text \in ArticleTexts
    /\ metadata = NoMetadata
    /\ textIdle
    /\ toneCallIdle
    /\ combineIdle
    /\ domainIdle
    /\ emotionIdle
    /\ appIdle

AnalyzeContentKeywords ==
    /\ contentResult.status = "none"
    /\ contentResult' = analyzeContentKeywords(text)
    /\ UNCHANGED appVars
    /\ UNCHANGED <<languageResult, framingResult, combineVars, metadata,
                   domainResult, toneVars, emotionalResult>>

AnalyzeLanguagePatterns ==
    /\ contentResult.status # "none"
    /\ languageResult.status = "none"
    /\ languageResult' = analyzeLanguagePatterns(text)
    /\ UNCHANGED appVars
    /\ UNCHANGED <<contentResult, framingResult, combineVars, metadata,
                   domainResult, toneVars, emotionalResult>>

AnalyzeFramingTechniques ==
    /\ languageResult.status # "none"
    /\ framingResult.status = "none"
    /\ framingResult' = analyzeFramingTechniques(text)
    /\ UNCHANGED appVars
    /\ UNCHANGED <<contentResult, languageResult, combineVars, metadata,
                   domainResult, toneVars, emotionalResult>>

NextText ==
    AnalyzeContentKeywords \/ AnalyzeLanguagePatterns \/ AnalyzeFramingTechniques

SpecText == InitText /\ [][NextText]_vars

InitEmotion ==
    /\ text \in EmotionTexts
    /\ metadata = NoMetadata
    /\ emotionIdle
    /\ textIdle
    /\ toneCallIdle
    /\ combineIdle
    /\ domainIdle
    /\ appIdle

AnalyzeEmotionalCharge ==
    /\ emotionalResult.status = "none"
    /\ emotionalResult' = analyzeEmotionalCharge(text)
    /\ UNCHANGED appVars
    /\ UNCHANGED <<textVars, combineVars, metadata, domainResult, toneVars>>

NextEmotion == AnalyzeEmotionalCharge

SpecEmotion == InitEmotion /\ [][NextEmotion]_vars

\* combineVectors and analyzeEmotionalCharge on one article: the two labelled
\* results of a page
InitBoundary ==
    /\ vectors \in BoundaryVectors
    /\ text \in BoundaryTexts
    /\ combined = NoResult
    /\ metadata = NoMetadata
    /\ emotionIdle
    /\ textIdle
    /\ toneCallIdle
    /\ domainIdle
    /\ appIdle

InitLabels == InitBoundary \/ InitCombine \/ InitEmotion

NextLabels == CombineVectors \/ AnalyzeEmotionalCharge

SpecLabels == InitLabels /\ [][NextLabels]_vars

\* analyzeBiasMultiVector with its tone slot filled; the vectors that read
\* no network run in any order, each any number of times, before the slots
\* are combined, and analyzeEmotionalCharge runs beside them
InitOrder ==
    /\ text \in PipelineTexts
    /\ metadata \in {[NoMetadata EXCEPT !.domain = d] : d \in PipelineDomains}
    /\ vectors \in {[AllAbsent EXCEPT !.gdelt = slot] : slot \in ToneSlots}
    /\ combined = NoResult
    /\ domainIdle
    /\ toneCallIdle
    /\ textIdle
    /\ emotionIdle
    /\ appIdle

\* try { vectors.x = analyze...(...) } catch (error) { console.log(...) }
Slot(result) ==
    IF result.status = "ok"
    THEN VectorResult(result.score, result.confidence)
    ELSE Absent

VectorDomain ==
    /\ combined.status = "none"
    /\ domainResult' = analyzeDomainBias(metadata)
    /\ vectors' = [vectors EXCEPT !.domain = Slot(domainResult')]
    /\ UNCHANGED appVars
    /\ UNCHANGED <<combined, metadata, toneVars, textVars, emotionalResult>>

VectorContent ==
    /\ combined.status = "none"
    /\ contentResult' = analyzeContentKeywords(text)
    /\ vectors' = [vectors EXCEPT !.content = Slot(contentResult')]
    /\ UNCHANGED appVars
    /\ UNCHANGED <<combined, metadata, toneVars, domainResult, languageResult,
                   framingResult, emotionalResult>>

VectorLanguage ==
    /\ combined.status = "none"
    /\ languageResult' = analyzeLanguagePatterns(text)
    /\ vectors' = [vectors EXCEPT !.language = Slot(languageResult')]
    /\ UNCHANGED appVars
    /\ UNCHANGED <<combined, metadata, toneVars, domainResult, contentResult,
                   framingResult, emotionalResult>>

VectorFraming ==
    /\ combined.status = "none"
    /\ framingResult' = analyzeFramingTechniques(text)
    /\ vectors' = [vectors EXCEPT !.framing = Slot(framingResult')]
    /\ UNCHANGED appVars
    /\ UNCHANGED <<combined, metadata, toneVars, domainResult, contentResult,
                   languageResult, emotionalResult>>

\* return combineVectors(vectors, weights)
VectorsCombined ==
    /\ combined.status = "none"
    /\ domainResult.status # "none"
    /\ contentResult.status # "none"
    /\ languageResult.status # "none"
    /\ framingResult.status # "none"
    /\ combined' = combineVectors(vectors, weights)
    /\ UNCHANGED appVars
    /\ UNCHANGED <<vectors, metadata, toneVars, domainResult, textVars,
                   emotionalResult>>

EmotionalCharge ==
    /\ emotionalResult' = analyzeEmotionalCharge(text)
    /\ UNCHANGED appVars
    /\ UNCHANGED <<combineVars, metadata, toneVars, domainResult, textVars>>

NextOrder ==
    \/ VectorDomain
    \/ VectorContent
    \/ VectorLanguage
    \/ VectorFraming
    \/ VectorsCombined
    \/ EmotionalCharge

SpecOrder == InitOrder /\ [][NextOrder]_vars

\* analyzeBiasGDELT: analyzeBiasMultiVector runs its five vectors one after
\* the other, awaiting the tone service, and combines the slots
InitBias ==
    /\ \E page \in TestPages : text = page.text /\ metadata = page.metadata
    /\ combineIdle
    /\ domainIdle
    /\ toneCallIdle
    /\ textIdle
    /\ emotionIdle
    /\ appIdle

\* vectors.domain = await analyzeDomainBias(metadata)
PipelineDomain == domainResult.status = "none" /\ VectorDomain

\* vectors.content = analyzeContentKeywords(text)
PipelineContent ==
    /\ domainResult.status # "none"
    /\ contentResult.status = "none"
    /\ VectorContent

\* await analyzeGDELTTone(text, metadata)
PipelineTone ==
    /\ contentResult.status # "none"
    /\ NextTone

\* the slot of a tone call that threw
MutToneCaughtNoConfidence == VectorResult(RZero, RZero)
ToneCaught == VectorResult(RZero, R(1, 10))

\* vectors.gdelt = the awaited result, or the catch block's neutral result
PipelineToneSlot ==
    /\ tonePc = "done"
    /\ ~vectors.gdelt.present
    /\ vectors' =
           [vectors EXCEPT
               !.gdelt = IF toneResult.status = "ok" THEN Slot(toneResult)
                         ELSE ToneCaught]
    /\ UNCHANGED <<combined, metadata, toneVars, domainResult, textVars,
                   emotionalResult, appVars>>

\* vectors.language = analyzeLanguagePatterns(text)
PipelineLanguage ==
    /\ vectors.gdelt.present
    /\ languageResult.status = "none"
    /\ VectorLanguage

\* vectors.framing = analyzeFramingTechniques(text)
PipelineFraming ==
    /\ languageResult.status # "none"
    /\ framingResult.status = "none"
    /\ VectorFraming

BiasOf(status, score, source) ==
    [status |-> status, score |-> score, label |-> getPoliticalLabel(score),
     source |-> source]
\* throw new Error(`Political analysis failed: ...`)
BiasFailed == [NoBias EXCEPT !.status = "threw"]

\* the try and the two catch blocks of analyzeBiasGDELT around the result of
\* combineVectors
analyzeBiasGDELT(result, md) ==
    IF result.status = "ok"
    THEN [status |-> "ok", score |-> result.score, label |-> result.label,
          source |-> "multi-vector"]
    ELSE LET domain == analyzeDomainBias(md)
         IN  IF domain.status = "ok"
             THEN BiasOf("fallback", domain.score, "domain")
             ELSE BiasFailed

\* return combineVectors(vectors, weights), and analyzeBiasGDELT returns
BiasReturns ==
    /\ framingResult.status # "none"
    /\ politicalBias.status = "none"
    /\ combined' = combineVectors(vectors, weights)
    /\ politicalBias' = analyzeBiasGDELT(combined', metadata)
    /\ UNCHANGED <<vectors, metadata, toneVars, domainResult, textVars,
                   emotionalResult>>
    /\ UNCHANGED <<textIsString, articlePc, analysis, stages, returned,
                   workerVars, callVars>>

NextBias ==
    \/ PipelineDomain
    \/ PipelineContent
    \/ PipelineTone
    \/ PipelineToneSlot
    \/ PipelineLanguage
    \/ PipelineFraming
    \/ BiasReturns

SpecBias == InitBias /\ [][NextBias]_vars

\* analyzeArticle, one call: the cache lookup, the four stages, the store
pipelineVars ==
    <<combineVars, metadata, toneVars, domainResult, textVars, emotionalResult>>
GeminiOutcomes == {"text", "noText", "notOk", "malformed", "rejects"}
OpposingOutcomes == {"articles", "searchLink", "rejects"}

InitArticle ==
    /\ \E page \in ArticlePages, isString \in BOOLEAN :
          /\ textIsString = isString
          /\ text = IF isString THEN page.text ELSE <<>>
          /\ metadata = page.metadata
    /\ geminiApiKey \in {NoKey, "key-1"}
    /\ storage = EmptyStorage
    /\ now = StartMs
    /\ storageDown \in BOOLEAN
    /\ politicalBias = NoBias
    /\ articlePc = "idle"
    /\ analysis = NoAnalysis
    /\ stages = <<>>
    /\ returned = NoAnalysis
    /\ callsIdle
    /\ clientIdle
    /\ combineIdle
    /\ domainIdle
    /\ toneCallIdle
    /\ textIdle
    /\ emotionIdle

\* const cached = await getCachedAnalysis(metadata.url); a hit returns it, a
\* miss (a storage error too) creates the analysis and enters stage 1
ArticleStart ==
    /\ articlePc = "idle"
    /\ LET cached == getCachedAnalysis(storage, PageHref(metadata), now)
          IN  IF ~storageDown /\ cached.data.made
              THEN /\ returned' = cached.data
                   /\ articlePc' = "done"
                   /\ UNCHANGED <<analysis, stages, storage>>
              ELSE /\ analysis' = [NoAnalysis EXCEPT !.made = TRUE,
                                                     !.timestamp = now]
                   /\ articlePc' = "political"
                   /\ stages' = <<"political">>
                   /\ storage' =
                          IF ~storageDown /\ cached.remove
                          THEN Remove(storage, {getCacheKey(PageHref(metadata))})
                          ELSE storage
                   /\ UNCHANGED returned
    /\ UNCHANGED <<politicalBias, textIsString, geminiApiKey, now, storageDown,
                   callVars>>
    /\ UNCHANGED pipelineVars

\* analyzeBiasMultiVector on a text that is not a string: the content, the
\* language and the framing call throw and leave their slots null, the tone
\* call throws and its slot gets the catch block's result
PipelineTextThrows ==
    /\ ~textIsString
    /\ domainResult.status # "none"
    /\ politicalBias.status = "none"
    /\ vectors' = [vectors EXCEPT !.gdelt = ToneCaught]
    /\ combined' = combineVectors(vectors', weights)
    /\ politicalBias' = analyzeBiasGDELT(combined', metadata)
    /\ UNCHANGED <<metadata, toneVars, domainResult, textVars,
                   emotionalResult>>
    /\ UNCHANGED <<textIsString, articlePc, analysis, stages, returned,
                   workerVars, callVars>>

\* politicalBias = await analyzeBiasGDELT(text, metadata), under way
ArticlePolitical ==
    /\ articlePc = "political"
    /\ IF textIsString THEN NextBias ELSE PipelineDomain \/ PipelineTextThrows

\* stage 1 settles: analysis.bias from the try or from the catch block
ArticleBias ==
    /\ articlePc = "political"
    /\ politicalBias.status # "none"
    /\ analysis' =
           IF politicalBias.status = "threw"
           THEN [analysis EXCEPT !.bias = Failed,
                                 !.errors = Append(@, PoliticalError)]
           ELSE [analysis EXCEPT
                    !.bias = Succeeded(politicalBias.score,
                                       politicalBias.source)]
    /\ articlePc' = "emotional"
    /\ stages' = Append(stages, "emotional")
    /\ UNCHANGED <<politicalBias, textIsString, returned, workerVars, callVars>>
    /\ UNCHANGED pipelineVars

\* stage 2: emotionalCharge = analyzeEmotionalCharge(text), which throws on
\* text.toLowerCase() when the text is not a string
ArticleEmotional ==
    /\ articlePc = "emotional"
    /\ IF textIsString
       THEN /\ emotionalResult' = analyzeEmotionalCharge(text)
            /\ analysis' =
                   [analysis EXCEPT
                       !.emotionalCharge =
                           Succeeded(emotionalResult'.score, "vader")]
       ELSE /\ analysis' =
                   [analysis EXCEPT !.emotionalCharge = Failed,
                                    !.errors = Append(@, EmotionalError)]
            /\ UNCHANGED emotionalResult
    /\ articlePc' = "summary"
    /\ stages' = Append(stages, "summary")
    /\ UNCHANGED <<politicalBias, textIsString, returned, workerVars, callVars>>
    /\ UNCHANGED <<combineVars, metadata, toneVars, domainResult, textVars>>

\* the catch block of stage 3
SummaryCaught ==
    [analysis EXCEPT !.neutralSummary = UnableToGenerate,
                     !.opposingViewpoint = UnableToGenerate,
                     !.errors = Append(@, SummaryError)]

\* stage 3 begins: text.substring throws when the text is not a string,
\* callGeminiAPI throws without a key, else both requests are sent
ArticleSummaryStart ==
    /\ articlePc = "summary"
    /\ IF ~textIsString \/ geminiApiKey = NoKey
       THEN /\ analysis' = SummaryCaught
            /\ articlePc' = "opposing"
            /\ stages' = Append(stages, "opposing")
       ELSE /\ articlePc' = "summaryFetch"
            /\ UNCHANGED <<analysis, stages>>
    /\ UNCHANGED <<politicalBias, textIsString, returned, workerVars, callVars>>
    /\ UNCHANGED pipelineVars

\* Promise.all settles: both texts, or the catch block when a request was
\* rejected, answered not ok, or answered without candidates
ArticleSummarySettles ==
    /\ articlePc = "summaryFetch"
    /\ \E neutral \in GeminiOutcomes, opposing \in GeminiOutcomes :
          analysis' =
              IF {neutral, opposing} \subseteq {"text", "noText"}
              THEN [analysis EXCEPT !.neutralSummary = Generated(neutral),
                                    !.opposingViewpoint = Generated(opposing)]
              ELSE SummaryCaught
    /\ articlePc' = "opposing"
    /\ stages' = Append(stages, "opposing")
    /\ UNCHANGED <<politicalBias, textIsString, returned, workerVars, callVars>>
    /\ UNCHANGED pipelineVars

\* what stage 4 makes of the outcome of fetchOpposingArticles
OpposingSettled(outcome) ==
    IF outcome.threw
    THEN [analysis EXCEPT !.opposingArticles = NoArticles,
                          !.errors = Append(@, OpposingError)]
    ELSE [analysis EXCEPT !.opposingArticles = outcome.list]

\* stage 4 begins: text.toLowerCase() throws inside fetchOpposingArticles
\* when the text is not a string, else the search request is sent
ArticleOpposingStart ==
    /\ articlePc = "opposing"
    /\ IF ~textIsString
       THEN /\ analysis' = OpposingSettled(OpposingCaught(metadata))
            /\ articlePc' = "store"
       ELSE /\ articlePc' = "opposingFetch"
            /\ UNCHANGED analysis
    /\ UNCHANGED <<politicalBias, textIsString, stages, returned, workerVars,
                   callVars>>
    /\ UNCHANGED pipelineVars

\* the search settles: articles, a search link, or the catch block
ArticleOpposingSettles ==
    /\ articlePc = "opposingFetch"
    /\ \E outcome \in OpposingOutcomes :
          analysis' =
              OpposingSettled(
                  IF outcome = "rejects" THEN OpposingCaught(metadata)
                  ELSE [threw |-> FALSE, list |-> Articles(outcome)])
    /\ articlePc' = "store"
    /\ UNCHANGED <<politicalBias, textIsString, stages, returned, workerVars,
                   callVars>>
    /\ UNCHANGED pipelineVars

\* await setCachedAnalysis(metadata.url, analysis), which logs a storage
\* error and goes on; return analysis
ArticleStore ==
    /\ articlePc = "store"
    /\ storage' =
           IF storageDown THEN storage
           ELSE setCachedAnalysis(storage, PageHref(metadata), analysis, now)
    /\ returned' = analysis
    /\ articlePc' = "done"
    /\ UNCHANGED <<politicalBias, textIsString, analysis, stages,
                   geminiApiKey, now, storageDown, callVars>>
    /\ UNCHANGED pipelineVars

\* chrome.storage.local starts to reject its calls, and answers again
StorageBreaks ==
    /\ storageDown = FALSE
    /\ storageDown' = TRUE
    /\ UNCHANGED <<geminiApiKey, storage, now, calls, articleVars, clientVars,
                     scoringVars>>
StorageRecovers ==
    /\ storageDown = TRUE
    /\ storageDown' = FALSE
    /\ UNCHANGED <<geminiApiKey, storage, now, calls, articleVars, clientVars,
                     scoringVars>>

NextArticle ==
    \/ ArticleStart
    \/ ArticlePolitical
    \/ ArticleBias
    \/ ArticleEmotional
    \/ ArticleSummaryStart
    \/ ArticleSummarySettles
    \/ ArticleOpposingStart
    \/ ArticleOpposingSettles
    \/ ArticleStore
    \/ StorageBreaks
    \/ StorageRecovers

SpecArticle == InitArticle /\ [][NextArticle]_vars

\* the worker's onMessage listener under several messages at once: every
\* await of a handler is a step of its own, so handlers interleave
Message(type, url, apiKey) == [type |-> type, url |-> url, apiKey |-> apiKey]
\* two articles are analyzed; the sidebar asks for the first under the url
\* of its tab, which has a query
Messages ==
    {Message("ANALYZE_ARTICLE", HrefArticle, NoKey),
     Message("ANALYZE_ARTICLE", HrefOtherPath, NoKey),
     Message("GET_ANALYSIS", HrefQuery, NoKey),
     Message("CLEAR_CACHE", NoString, NoKey),
     Message("SET_API_KEY", NoString, "key-1")}
\* the moments a run sees: the start, the expiry time later, a millisecond
\* more
Moments ==
    {StartMs, StartMs + CACHE_EXPIRY_MS, StartMs + CACHE_EXPIRY_MS + 1}

InitCache ==
    /\ callsIdle
    /\ clientIdle
    /\ workerIdle
    /\ articleIdle
    /\ text = <<>>
    /\ metadata = NoMetadata
    /\ combineIdle
    /\ domainIdle
    /\ toneCallIdle
    /\ textIdle
    /\ emotionIdle

Answered(i) == calls[i].response.sent
\* what the stages make of an article: the summaries need the key and an
\* answer of the Gemini service
AnalysisOf(t, summarized) ==
    [NoAnalysis EXCEPT
        !.made = TRUE,
        !.timestamp = t,
        !.bias = Succeeded(RZero, "multi-vector"),
        !.emotionalCharge = Succeeded(RZero, "vader"),
        !.neutralSummary =
            IF summarized THEN Generated("text") ELSE UnableToGenerate,
        !.opposingViewpoint =
            IF summarized THEN Generated("text") ELSE UnableToGenerate,
        !.opposingArticles = Articles("searchLink"),
        !.errors = IF summarized THEN <<>> ELSE <<SummaryError>>]

\* chrome.runtime.onMessage: the listener runs up to the handler's first
\* await; SET_API_KEY assigns geminiApiKey before it writes the storage
Received(message) ==
    \E i \in CallIds :
        /\ calls[i].type = "none"
        /\ \A j \in CallIds : j < i => calls[j].type # "none"
        /\ calls' =
               [calls EXCEPT
                   ![i] = [NoCall EXCEPT
                              !.type = message.type,
                              !.url = message.url,
                              !.key = getCacheKey(message.url),
                              !.apiKey = message.apiKey,
                              !.after = {j \in CallIds : Answered(j)},
                              !.pc = CASE message.type = "CLEAR_CACHE" -> "getAll"
                                       [] message.type = "SET_API_KEY" -> "setKey"
                                       [] OTHER -> "get"]]
        /\ geminiApiKey' =
               IF message.type = "SET_API_KEY" THEN message.apiKey
               ELSE geminiApiKey
        /\ UNCHANGED <<storage, now, storageDown, articleVars, clientVars,
                     scoringVars>>

\* getCachedAnalysis returned null: GET_ANALYSIS answers it, analyzeArticle
\* creates its analysis and goes into the stages
Missed(call, t) ==
    IF call.type = "GET_ANALYSIS"
    THEN [call EXCEPT !.pc = "done", !.response = Reply(TRUE, NoAnalysis)]
    ELSE [call EXCEPT !.pc = "stages", !.data = AnalysisOf(t, FALSE)]

\* await chrome.storage.local.get([key]) in getCachedAnalysis answers
StorageGet ==
    \E i \in CallIds :
        /\ calls[i].pc = "get"
        /\ LET cached == getCachedAnalysis(storage, calls[i].url, now)
           IN  calls' =
                   [calls EXCEPT
                       ![i] = IF storageDown
                              THEN Missed([@ EXCEPT !.caught = TRUE], now)
                              ELSE IF cached.remove
                              THEN [@ EXCEPT !.pc = "remove"]
                              ELSE IF cached.data.made
                              THEN [@ EXCEPT !.pc = "done",
                                             !.response = Reply(TRUE, cached.data)]
                              ELSE Missed(@, now)]
        /\ UNCHANGED <<workerVars, articleVars, clientVars,
                     scoringVars>>

\* await chrome.storage.local.remove([key]) of an expired entry answers
StorageRemove ==
    \E i \in CallIds :
        /\ calls[i].pc = "remove"
        /\ storage' =
               IF storageDown THEN storage
               ELSE Remove(storage, {calls[i].key})
        /\ calls' =
               [calls EXCEPT
                   ![i] = Missed([@ EXCEPT !.caught = storageDown], now)]
        /\ UNCHANGED <<geminiApiKey, now, storageDown, articleVars,
                     clientVars, scoringVars>>

\* analyzeArticle's four stages; callGeminiAPI reads geminiApiKey
Stages ==
    \E i \in CallIds, answers \in BOOLEAN :
        /\ calls[i].pc = "stages"
        /\ calls' =
               [calls EXCEPT
                   ![i] = [@ EXCEPT
                              !.pc = "store",
                              !.ranStages = TRUE,
                              !.data = AnalysisOf(@.timestamp,
                                                  geminiApiKey # NoKey /\ answers)]]
        /\ UNCHANGED <<workerVars, articleVars, clientVars,
                     scoringVars>>

\* await chrome.storage.local.set({ [key]: cacheEntry }) answers, and
\* analyzeArticle returns its analysis
StorageSet ==
    \E i \in CallIds :
        /\ calls[i].pc = "store"
        /\ storage' =
               IF storageDown THEN storage
               ELSE setCachedAnalysis(storage, calls[i].url, calls[i].data, now)
        /\ calls' =
               [calls EXCEPT
                   ![i] = [@ EXCEPT !.pc = "done",
                                    !.response = Reply(TRUE, calls[i].data)]]
        /\ UNCHANGED <<geminiApiKey, now, storageDown, articleVars,
                     clientVars, scoringVars>>

\* clearCache: await chrome.storage.local.get(null) answers
ClearGetAll ==
    \E i \in CallIds :
        /\ calls[i].pc = "getAll"
        /\ calls' =
               [calls EXCEPT
                   ![i] = IF storageDown
                          THEN [@ EXCEPT !.pc = "done",
                                         !.response = Reply(FALSE, NoAnalysis)]
                          ELSE IF keysToRemove(storage) = {}
                          THEN [@ EXCEPT !.pc = "done",
                                         !.response = Reply(TRUE, NoAnalysis)]
                          ELSE [@ EXCEPT !.pc = "removeAll",
                                         !.keys = keysToRemove(storage)]]
        /\ UNCHANGED <<workerVars, articleVars, clientVars,
                     scoringVars>>

\* clearCache: await chrome.storage.local.remove(keysToRemove) answers
ClearRemove ==
    \E i \in CallIds :
        /\ calls[i].pc = "removeAll"
        /\ storage' =
               IF storageDown THEN storage ELSE Remove(storage, calls[i].keys)
        /\ calls' =
               [calls EXCEPT
                   ![i] = [@ EXCEPT !.pc = "done",
                                    !.response = Reply(~storageDown, NoAnalysis)]]
        /\ UNCHANGED <<geminiApiKey, now, storageDown, articleVars,
                     clientVars, scoringVars>>

\* SET_API_KEY: chrome.storage.local.set answers: the onChanged listener
\* assigns the new value when it was stored, the callback sends the response
KeyStored ==
    \E i \in CallIds :
        /\ calls[i].pc = "setKey"
        /\ storage' =
               IF storageDown THEN storage
               ELSE [storage EXCEPT ![ApiKeyName] = KeyEntry(calls[i].apiKey)]
        /\ geminiApiKey' = IF storageDown THEN geminiApiKey ELSE calls[i].apiKey
        /\ calls' =
               [calls EXCEPT
                   ![i] = [@ EXCEPT !.pc = "done",
                                    !.response = Reply(TRUE, NoAnalysis)]]
        /\ UNCHANGED <<now, storageDown, articleVars, clientVars,
                     scoringVars>>

\* time passes
Tick ==
    \E later \in Moments :
        /\ now < later
        /\ now' = later
        /\ UNCHANGED <<geminiApiKey, storage, storageDown, calls, articleVars,
                     clientVars, scoringVars>>

Receive == \E message \in Messages : Received(message)

NextCache ==
    \/ Receive
    \/ StorageGet
    \/ StorageRemove
    \/ Stages
    \/ StorageSet
    \/ ClearGetAll
    \/ ClearRemove
    \/ KeyStored
    \/ Tick

SpecCache == InitCache /\ [][NextCache]_vars

\* the content script on a page: the load timer, the url check every second,
\* EXTRACT_ARTICLE messages of the sidebar, and the worker's answers
PageHrefs == {"page-1", "page-2"}
MaxTimers == 2
MaxOutstanding == 3
workerIdleVars == <<articleVars, workerVars, calls, scoringVars, sidebarVars>>

InitPage ==
    /\ isProcessing = FALSE
    /\ locationHref \in PageHrefs
    /\ lastUrl = locationHref
    /\ longText \in BOOLEAN
    /\ timers = 1
    /\ outstanding = <<>>
    /\ lastUpdate = NoPage
    /\ sidebarIdle
    /\ callsIdle
    /\ workerIdle
    /\ articleIdle
    /\ text = <<>>
    /\ metadata = NoMetadata
    /\ combineIdle
    /\ domainIdle
    /\ toneCallIdle
    /\ textIdle
    /\ emotionIdle

\* processArticle from its first to its last statement (it awaits nothing):
\* the flag it leaves and the requests outstanding after it
processArticle(flag, enoughText, url, sent) ==
    IF flag THEN [isProcessing |-> TRUE, outstanding |-> sent]
    ELSE IF ~enoughText THEN [isProcessing |-> FALSE, outstanding |-> sent]
    ELSE [isProcessing |-> FALSE, outstanding |-> Append(sent, url)]

Process ==
    LET after == processArticle(isProcessing, longText, locationHref, outstanding)
    IN  /\ Len(after.outstanding) <= MaxOutstanding
        /\ isProcessing' = after.isProcessing
        /\ outstanding' = after.outstanding

\* setTimeout(processArticle, 1000) fires
TimerFires ==
    /\ timers > 0
    /\ timers' = timers - 1
    /\ Process
    /\ UNCHANGED <<locationHref, lastUrl, longText, lastUpdate>>
    /\ UNCHANGED workerIdleVars

\* the onMessage listener gets EXTRACT_ARTICLE
ExtractArticle ==
    /\ Process
    /\ UNCHANGED <<locationHref, lastUrl, longText, timers, lastUpdate>>
    /\ UNCHANGED workerIdleVars

\* the page navigates without reloading
Navigate ==
    /\ locationHref' \in PageHrefs \ {locationHref}
    /\ longText' \in BOOLEAN
    /\ UNCHANGED <<isProcessing, lastUrl, timers, outstanding, lastUpdate>>
    /\ UNCHANGED workerIdleVars

\* the setInterval callback sees another url
UrlCheck ==
    /\ locationHref # lastUrl
    /\ timers < MaxTimers
    /\ lastUrl' = locationHref
    /\ timers' = timers + 1
    /\ UNCHANGED <<isProcessing, locationHref, longText, outstanding,
                   lastUpdate>>
    /\ UNCHANGED workerIdleVars

\* the callback of an ANALYZE_ARTICLE message runs: UPDATE_SIDEBAR is sent
\* for a response with success
AnalyzeAnswered ==
    \E i \in 1..Len(outstanding), success \in BOOLEAN :
        /\ outstanding' =
               SubSeq(outstanding, 1, i - 1)
               \o SubSeq(outstanding, i + 1, Len(outstanding))
        /\ lastUpdate' = IF success THEN outstanding[i] ELSE lastUpdate
        /\ UNCHANGED <<isProcessing, locationHref, lastUrl, longText, timers>>
        /\ UNCHANGED workerIdleVars

NextPage ==
    \/ TimerFires
    \/ ExtractArticle
    \/ Navigate
    \/ UrlCheck
    \/ AnalyzeAnswered

SpecPage == InitPage /\ [][NextPage]_vars

(***************************************************************************)
(* The sidebar: saveApiKey                                                 *)
(***************************************************************************)
\* function showLoading()
showLoading(v) == View("loading", "")
\* function showError(message)
showError(v, message) == View("error", message)
\* function displayAnalysis(analysis): the content pane is shown last
displayAnalysis(v, data) == View("content", "")

\* the message types the onMessage listener of the background worker
\* answers; for any other type the listener returns undefined and the
\* sender's callback is called without a response
HandledTypes ==
    {"ANALYZE_ARTICLE", "SET_API_KEY", "GET_API_KEY", "CLEAR_CACHE",
     "GET_ANALYSIS"}
\* what the callback of chrome.runtime.sendMessage receives
Answer(type, success) ==
    IF type \in HandledTypes THEN Reply(success, NoAnalysis) ELSE NoReply

\* the value of the input as the key it spells: the typed value is a
\* sequence of pieces, each white space or the body of a key
Spelt(pieces) == IF pieces = <<>> THEN NoKey ELSE pieces[1]
\* what the user types into api-key-input
TypedKeys ==
    {<<>>, <<" ">>, <<"key-1">>, <<" ", "key-1", " ">>, <<"key-2">>,
     <<"\t", "key-2">>}
\* the requestAnalysis calls that wait for the page at one time
MaxExtracting == 1

\* a sidebar whose first requestAnalysis ended without a polling interval
\* (no active tab, or the page did not answer), with the key the worker
\* loaded from storage
InitSave ==
    /\ view \in {View("error", "No active tab found"),
                 View("error", "Could not connect to page")}
    /\ saveButton = Button("Save", FALSE)
    /\ \E stored \in {NoKey, "key-2"} :
           /\ geminiApiKey = stored
           /\ storage =
                  IF stored = NoKey THEN EmptyStorage
                  ELSE [EmptyStorage EXCEPT ![ApiKeyName] = KeyEntry(stored)]
           /\ apiKeyInput = IF stored = NoKey THEN <<>> ELSE <<stored>>
    /\ savePc = "idle"
    /\ lastSave = NoSave
    /\ sessions = [id \in SessionIds |-> NoSession]
    /\ extracting = 0
    /\ now = StartMs
    /\ storageDown = FALSE
    /\ pageIdle
    /\ callsIdle
    /\ articleIdle
    /\ text = <<>>
    /\ metadata = NoMetadata
    /\ combineIdle
    /\ domainIdle
    /\ toneCallIdle
    /\ textIdle
    /\ emotionIdle

\* the user edits api-key-input
TypeKey ==
    \E typed \in TypedKeys :
        /\ apiKeyInput # typed
        /\ apiKeyInput' = typed
        /\ UNCHANGED <<view, saveButton, savePc, lastSave, sessions,
                       extracting, pageVars, articleVars, workerVars, calls,
                       scoringVars>>

\* a click on save-api-key: saveApiKey up to the first sendMessage
SaveClick ==
    LET apiKey == Spelt(Trim(apiKeyInput))
    IN  /\ ~saveButton.disabled
        /\ savePc = "idle"
        /\ IF apiKey = NoKey
           THEN /\ lastSave' =
                       [key |-> apiKey, outcome |-> "enterKey",
                        requested |-> FALSE]
                /\ UNCHANGED <<saveButton, savePc>>
           ELSE /\ saveButton' = Button("Saving...", TRUE)
                /\ savePc' = "TEST_API_KEY"
                /\ lastSave' =
                       [key |-> apiKey, outcome |-> "none",
                        requested |-> FALSE]
        /\ UNCHANGED <<view, apiKeyInput, sessions, extracting, pageVars,
                       articleVars, workerVars, calls, scoringVars>>

\* the callback of the message saveApiKey waits on is called; for
\* SET_API_KEY the worker has assigned and stored the key before it answers
SaveAnswered ==
    LET apiKey == lastSave.key
        result == Answer(savePc, TRUE)
    IN  /\ savePc \in {"TEST_API_KEY", "SET_API_KEY"}
        /\ IF savePc = "TEST_API_KEY"
           THEN IF result.sent /\ result.success
                THEN /\ savePc' = "SET_API_KEY"
                     /\ UNCHANGED <<saveButton, lastSave, view, extracting,
                                    workerVars>>
                ELSE \* testResult.error of an undefined testResult throws
                     \* after the button was reset
                     /\ savePc' = "idle"
                     /\ saveButton' = Button("Save", FALSE)
                     /\ lastSave' =
                            [lastSave EXCEPT
                                !.outcome = IF result.sent THEN "testFailed"
                                            ELSE "threw"]
                     /\ UNCHANGED <<view, extracting, workerVars>>
           ELSE /\ savePc' = "idle"
                /\ saveButton' = Button("Save", FALSE)
                /\ geminiApiKey' = apiKey
                /\ storage' = [storage EXCEPT ![ApiKeyName] = KeyEntry(apiKey)]
                /\ IF result.sent /\ result.success
                   THEN /\ lastSave' =
                               [lastSave EXCEPT !.outcome = "saved",
                                                !.requested = TRUE]
                        /\ view' = showLoading(view)
                        /\ extracting' = extracting + 1
                   ELSE /\ lastSave' = [lastSave EXCEPT !.outcome = "notSaved"]
                        /\ UNCHANGED <<view, extracting>>
                /\ UNCHANGED <<now, storageDown>>
        /\ UNCHANGED <<apiKeyInput, sessions, pageVars, articleVars, calls,
                       scoringVars>>

NextSave == TypeKey \/ SaveClick \/ SaveAnswered
SpecSave == InitSave /\ [][NextSave]_vars

(***************************************************************************)
(* The sidebar: requestAnalysis                                            *)
(***************************************************************************)
\* const maxAttempts = 120
maxAttempts == 120
\* the GET_ANALYSIS messages of one interval that wait for their response
MaxPending == 1
\* showError('Analysis is taking longer than expected. Please try again.')
TimeoutMessage == "Analysis is taking longer than expected"
\* what the callback of EXTRACT_ARTICLE, or the code before it, meets
ExtractOutcomes == {"noTab", "lastError", "success", "noSuccess"}
\* tab.url of the active tab
TabUrl == HrefArticle
\* getCacheKey(message.url) of its GET_ANALYSIS messages
TabKey == getCacheKey(TabUrl)

\* setInterval(() => { ... }, 500) of a successful EXTRACT_ARTICLE reply
StartPolling == [state |-> "polling", attempts |-> 0, pending |-> 0]
MutCheckTimesOutLate(session, v) ==
    LET attempts == session.attempts + 1
        timedOut == attempts > maxAttempts
    IN  [session |->
             [state |-> IF timedOut THEN "stopped" ELSE session.state,
              attempts |-> attempts,
              pending |-> session.pending + 1],
         view |-> IF timedOut THEN showError(v, TimeoutMessage) ELSE v]
\* one call of the interval's function: the session and the pane after it
checkForAnalysis(session, v) ==
    LET attempts == session.attempts + 1
        timedOut == attempts >= maxAttempts
    IN  [session |->
             [state |-> IF timedOut THEN "stopped" ELSE session.state,
              attempts |-> attempts,
              pending |-> session.pending + 1],
         view |-> IF timedOut THEN showError(v, TimeoutMessage) ELSE v]

InitPoll ==
    /\ sidebarIdle
    /\ pageIdle
    /\ callsIdle
    /\ workerIdle
    /\ articleIdle
    /\ text = <<>>
    /\ metadata = NoMetadata
    /\ combineIdle
    /\ domainIdle
    /\ toneCallIdle
    /\ textIdle
    /\ emotionIdle

pollIdleVars ==
    <<saveButton, apiKeyInput, savePc, lastSave, pageVars, articleVars,
      calls, scoringVars>>

\* requestAnalysis is called: when the script starts, by the retry button,
\* or by the timer of tabs.onUpdated
RequestAnalysis ==
    /\ extracting < MaxExtracting
    /\ view' = showLoading(view)
    /\ extracting' = extracting + 1
    /\ UNCHANGED <<sessions, workerVars, pollIdleVars>>

\* tabs.query found no tab, or the callback of EXTRACT_ARTICLE is called;
\* the runs let a second interval start once the first was cleared (the
\* retry button is in the error pane)
ExtractAnswered ==
    \E outcome \in ExtractOutcomes :
        /\ extracting > 0
        /\ extracting' = extracting - 1
        /\ IF outcome = "success"
           THEN \E id \in SessionIds :
                    /\ sessions[id].state = "none"
                    /\ \A other \in SessionIds :
                           other < id => sessions[other].state = "stopped"
                    /\ sessions' = [sessions EXCEPT ![id] = StartPolling]
                    /\ UNCHANGED view
           ELSE /\ view' =
                       showError(view,
                                 CASE outcome = "noTab" -> "No active tab found"
                                   [] outcome = "lastError" ->
                                          "Could not connect to page"
                                   [] OTHER ->
                                          "Failed to extract article content")
                /\ UNCHANGED sessions
        /\ UNCHANGED <<workerVars, pollIdleVars>>

\* the interval of a session fires: attempts++, GET_ANALYSIS is sent, and
\* at maxAttempts the interval is cleared and the error shown
IntervalFiresIn(id) ==
    LET after == checkForAnalysis(sessions[id], view)
    IN  /\ sessions[id].state = "polling"
        /\ sessions[id].pending < MaxPending
        /\ sessions' = [sessions EXCEPT ![id] = after.session]
        /\ view' = after.view
        /\ UNCHANGED <<extracting, workerVars, pollIdleVars>>
IntervalFires == \E id \in SessionIds : IntervalFiresIn(id)

\* the worker answers a GET_ANALYSIS of a session with what
\* getCachedAnalysis finds, and the session's callback runs
AnalysisAnsweredIn(id) ==
    LET found == cachedUnder(storage, TabKey, now).data
    IN  /\ sessions[id].pending > 0
        /\ sessions' =
               [sessions EXCEPT
                   ![id] = [@ EXCEPT
                               !.pending = @ - 1,
                               !.state = IF found.made THEN "stopped" ELSE @]]
        /\ view' = IF found.made THEN displayAnalysis(view, found) ELSE view
        /\ UNCHANGED <<extracting, workerVars, pollIdleVars>>
AnalysisAnswered == \E id \in SessionIds : AnalysisAnsweredIn(id)

\* the worker finishes analyzeArticle for the page of the tab and caches it
ArticleAnalyzed ==
    /\ ~cachedUnder(storage, TabKey, now).data.made
    /\ storage' =
           [storage EXCEPT ![TabKey] = CacheEntry(AnalysisOf(now, FALSE), now)]
    /\ UNCHANGED <<geminiApiKey, now, storageDown, view, sessions,
                   extracting, pollIdleVars>>

\* the content script's UPDATE_SIDEBAR message with the analysis arrives
UpdateSidebar ==
    LET found == cachedUnder(storage, TabKey, now).data
    IN  /\ found.made
        /\ view.shown # "content"
        /\ view' = displayAnalysis(view, found)
        /\ UNCHANGED <<sessions, extracting, workerVars, pollIdleVars>>

NextPoll ==
    \/ RequestAnalysis
    \/ ExtractAnswered
    \/ IntervalFires
    \/ AnalysisAnswered
    \/ ArticleAnalyzed
    \/ UpdateSidebar
SpecPoll == InitPoll /\ [][NextPoll]_vars
\* an interval that was not cleared keeps firing every 500 ms, and the
\* worker answers every GET_ANALYSIS
SpecPollFair ==
    /\ SpecPoll
    /\ \A id \in SessionIds :
           WF_vars(IntervalFiresIn(id)) /\ WF_vars(AnalysisAnsweredIn(id))

\* getCachedAnalysis alone: an article is analyzed and asked for again and
\* again while time passes and the storage fails at times
LookupMessages ==
    {Message("ANALYZE_ARTICLE", HrefArticle, NoKey),
     Message("GET_ANALYSIS", HrefQuery, NoKey)}
ReceiveLookup == \E message \in LookupMessages : Received(message)

NextLookup ==
    \/ ReceiveLookup
    \/ StorageGet
    \/ StorageRemove
    \/ Stages
    \/ StorageSet
    \/ Tick
    \/ StorageBreaks
    \/ StorageRecovers

SpecLookup == InitCache /\ [][NextLookup]_vars

\* getCacheKey on every test url: GET_ANALYSIS messages on an empty storage
ReceiveUrl ==
    \E url \in TestHrefs : Received(Message("GET_ANALYSIS", url, NoKey))

NextKey == ReceiveUrl \/ StorageGet

SpecKey == InitCache /\ [][NextKey]_vars

(***************************************************************************)
(* Properties of combineVectors                                            *)
(***************************************************************************)
Returned == combined.status = "ok"
Called == combined.status # "none"
Supplied == {name \in NameSet : vectors[name].present}

\* C1: combineVectors signals the 'no evidence' failure if and only if every
\* supplied vector has confidence 0 or no vector is supplied; on every other
\* mapping it returns a result.
C1_ExhaustionIffNoConfidence ==
    Called =>
        ((combined.status = "error")
            <=> \A name \in Supplied : vectors[name].confidence = RZero)

\* C2: whenever combineVectors returns, on slots with score in [-1,1] and
\* confidence in [0,1], the returned score is in [-1,1] and the returned
\* confidence is in [0, 0.9].
C2_OutputRanges ==
    Returned =>
        /\ RLe(RInt(-1), combined.score) /\ RLe(combined.score, RInt(1))
        /\ RLe(RZero, combined.confidence) /\ RLe(combined.confidence, R(9, 10))

\* all five slots filled, one of them reporting confidence 0, and a result
\* that is not the neutral one
C2_Witness ==
    /\ Returned
    /\ Cardinality(Supplied) = 5
    /\ \E name \in Supplied : vectors[name].confidence = RZero
    /\ RLt(combined.score, RZero)

\* the claim's sums: each vector's reported confidence used unchanged
RECURSIVE ReportedSum(_, _)
ReportedSum(names, withScore) ==
    IF names = {} THEN RZero
    ELSE LET name == CHOOSE x \in names : TRUE
             w == RMul(weights[name], vectors[name].confidence)
         IN  RAdd(ReportedSum(names \ {name}, withScore),
                  IF withScore THEN RMul(vectors[name].score, w) ELSE w)

\* C3: the combined score is the sum over present vectors of
\* score x nominalWeight x confidence divided by the sum of
\* nominalWeight x confidence, clamped to [-1,1], with each vector's own
\* confidence unchanged, so that a present vector of confidence 0 adds nothing
\* to either sum.
C3_ScoreUsesReportedConfidence ==
    (Returned /\ ReportedSum(Supplied, FALSE) # RZero) =>
        combined.score =
            Clamp(RDiv(ReportedSum(Supplied, TRUE), ReportedSum(Supplied, FALSE)))

NonZeroConfidence(name) ==
    vectors[name].present /\ vectors[name].confidence # RZero

\* C4: the combined confidence is min(n/5, 0.9) with n the number of vectors
\* present with non-zero confidence, and the contributing vectors and the
\* per-vector scores list exactly those n vectors.
C4_CountsNonZeroConfidenceOnly ==
    (Returned /\ \E name \in NameSet : NonZeroConfidence(name)) =>
        LET counted == SelectSeq(VectorNames, NonZeroConfidence)
        IN  /\ combined.confidence = RMin(R(Len(counted), 5), R(9, 10))
            /\ combined.vectors = counted
            /\ Len(combined.individualScores) = Len(counted)

\* the standard abstention result of a vector: score 0, confidence 0.1
Abstention == VectorResult(RZero, R(1, 10))
AllAbstain == \A name \in NameSet : vectors[name] = Abstention

\* C6: with the standard abstention result in all five slots combineVectors
\* does not fail: it returns score 0, label Moderate and a confidence above 0.
C6_AllAbstainSucceeds ==
    (AllAbstain /\ Called) =>
        /\ Returned
        /\ combined.score = RZero
        /\ combined.label = "Moderate"
        /\ RLt(RZero, combined.confidence)

C6_Witness == AllAbstain /\ Returned /\ Len(combined.vectors) = 5

(***************************************************************************)
(* Properties of the vectors                                               *)
(***************************************************************************)
\* C5: a vector signals lack of evidence by a neutral low-confidence result,
\* never by throwing: no vector function raises an error, whatever the text
\* and the metadata.
C5_VectorsNeverThrow ==
    /\ domainResult.status # "threw"
    /\ toneResult.status # "threw"

IsFetch(e) == e.type = "fetch"
IsOutcome(e) == e.type = "outcome"
Fetches == SelectSeq(toneLog, IsFetch)
Outcomes == SelectSeq(toneLog, IsOutcome)
ToneDone == tonePc = "done"

\* C7: analyzeGDELTTone never throws or rejects, whatever the text and the
\* metadata (a missing or unparseable metadata.url included), and where no
\* query produced usable tone data it returns exactly score 0.0 with
\* confidence 0.1.
C7_ToneNeverThrows ==
    /\ toneResult.status # "threw"
    /\ (ToneDone /\ \A k \in 1..Len(Outcomes) : ~Outcomes[k].usable)
           => toneResult = ToneNeutral

\* C8: the candidate queries are sent one at a time in list order (title,
\* URL-path tokens, first 150 characters of the body), at most three; the
\* fixed delay is waited before every attempt but the first; a query is sent
\* only after every earlier one failed or gave no usable tone; and after a
\* query that gives usable tone no later query is sent and the function
\* returns.
C8_SequentialQueries ==
    LET order == SelectSeq(Candidates(text, metadata), KeepQuery)
    IN  /\ Len(Fetches) <= 3
        /\ Len(Fetches) <= Len(order)
        /\ \A j \in 1..Len(Fetches) : Fetches[j].query = order[j].s
        /\ Len(Fetches) - Len(Outcomes) = (IF tonePc = "fetch" THEN 1 ELSE 0)
        /\ \A k \in 1..Len(toneLog) :
            /\ (IsFetch(toneLog[k]) /\ k > 1) =>
                   /\ toneLog[k - 1] = DelayEvent
                   /\ \A j \in 1..(k - 1) :
                          IsOutcome(toneLog[j]) => ~toneLog[j].usable
            /\ toneLog[k].type = "delay" =>
                   /\ k > 1 /\ IsOutcome(toneLog[k - 1])
                   /\ k < Len(toneLog) /\ IsFetch(toneLog[k + 1])
            /\ IsOutcome(toneLog[k]) => k > 1 /\ IsFetch(toneLog[k - 1])
            /\ (IsOutcome(toneLog[k]) /\ toneLog[k].usable) =>
                   /\ k = Len(toneLog)
                   /\ ToneDone
                   /\ toneResult.status = "ok"
                   /\ toneResult.confidence = R(6, 10)

\* all three candidates sent, the third one answered with usable tone
C8_Witness ==
    /\ Len(Fetches) = 3
    /\ Fetches[1].query = LongTitle
    /\ Fetches[2].query =
           <<"p", "o", "l", "i", "t", "i", "c", "s", " ", "s", "e", "n", "a", "t",
             "e", "-", "b", "u", "d", "g", "e", "t", "-", "v", "o", "t", "e">>
    /\ Len(Fetches[3].query) \in (MinQueryLen + 1)..BodyPrefixLen
    /\ Len(SelectSeq(toneLog, LAMBDA e : e = DelayEvent)) = 2
    /\ toneLog[Len(toneLog)] = OutcomeEvent(TRUE)
    /\ ToneDone

\* what an article carries as its tone: its first tone field that is there,
\* a 0 included
CarriedTone(article) ==
    IF article.tone.kind # "missing" THEN article.tone
    ELSE IF article.avgtone.kind # "missing" THEN article.avgtone
    ELSE article.tone_score
CarriesTone(article) == CarriedTone(article).kind = "num"

RECURSIVE CarriedTotal(_)
CarriedTotal(items) ==
    IF Len(items) = 0 THEN 0
    ELSE CarriedTotal(Tail(items)) + CarriedTone(Head(items)).v

\* the latest response is a body whose article list is an array of objects
WellFormedResponse ==
    /\ toneLast.kind = "json"
    /\ BodyArticles(toneLast.data).kind = "array"
    /\ \A k \in 1..Len(BodyArticles(toneLast.data).items) :
           ~BodyArticles(toneLast.data).items[k].isNull

\* C9: a response is usable exactly when at least one returned article
\* carries a numeric tone value, 0 included; the result is then the mean of
\* the numeric tones divided by 100, clamped to [-1,1], with confidence 0.6,
\* and a response with no numeric tone is no data for that query.
C9_UsableIffNumericTone ==
    WellFormedResponse =>
        LET numeric == SelectSeq(BodyArticles(toneLast.data).items, CarriesTone)
            usable == Outcomes[Len(Outcomes)].usable
        IN  /\ usable <=> Len(numeric) > 0
            /\ usable =>
                   /\ toneResult.confidence = R(6, 10)
                   /\ toneResult.score =
                          Clamp(R(CarriedTotal(numeric), Len(numeric) * 100))

\* the claim's normal form of a domain: lower case, a leading 'www.' removed
LowerNoWww(raw) ==
    LET lower == ToLowerCase(raw)
    IN  IF StartsWith(lower, <<"w", "w", "w", ".">>)
        THEN SubSeq(lower, 5, Len(lower))
        ELSE lower
MatchingPatterns(domain) ==
    {i \in 1..Len(domainPatterns) : PatternTest(i, domain)}
InTable(domain) ==
    \E i \in 1..Len(domainBiasMap) : domainBiasMap[i].domain = domain
TableScore(domain) ==
    domainBiasMap[CHOOSE i \in 1..Len(domainBiasMap) :
                      domainBiasMap[i].domain = domain].score
NetworkNames ==
    {<<"f", "o", "x">>, <<"c", "n", "n">>, <<"m", "s", "n", "b", "c">>,
     <<"a", "b", "c">>, <<"c", "b", "s">>, <<"n", "b", "c">>}
HeuristicHit(domain) == \E name \in NetworkNames : Includes(domain, name)
DomainIs(raw) == metadata.domain = raw

Occurrences(words) ==
    LET s == ToLowerCase(text)
    IN  Cardinality({i \in 1..Len(s) : RegexMatch(s, i, words) > 0})

\* occurrences x weight, summed over the entries lo..hi of a dictionary
RECURSIVE PolaritySum(_, _, _)
PolaritySum(dict, lo, hi) ==
    IF lo > hi THEN RZero
    ELSE IF lo = hi THEN RMul(RInt(Occurrences(dict[lo].words)), dict[lo].weight)
    ELSE RAdd(PolaritySum(dict, lo, (lo + hi) \div 2),
              PolaritySum(dict, (lo + hi) \div 2 + 1, hi))

LongEnough == Len(text) >= MinTextLen

\* C11: for text of at least 100 characters analyzeContentKeywords always
\* returns a result: (0, 0.1) when the liberal and the conservative sums of
\* occurrences x weight are both zero, otherwise the score
\* (liberal - conservative) / (liberal + conservative) clamped to [-1,1] with
\* confidence min(total / 20, 0.8); hits of one polarity alone give a score
\* of that polarity's sign.
C11_ContentFormula ==
    (contentResult.status # "none" /\ LongEnough) =>
        LET liberalSum == PolaritySum(liberalKeywords, 1, Len(liberalKeywords))
            conservativeSum ==
                PolaritySum(conservativeKeywords, 1, Len(conservativeKeywords))
            total == RAdd(liberalSum, conservativeSum)
        IN  /\ contentResult.status = "ok"
            /\ total = RZero =>
                   /\ contentResult.score = RZero
                   /\ contentResult.confidence = R(1, 10)
            /\ total # RZero =>
                   /\ contentResult.score =
                          Clamp(RDiv(RAdd(liberalSum, RNeg(conservativeSum)),
                                     total))
                   /\ contentResult.confidence =
                          RMin(RDiv(total, RInt(20)), R(8, 10))
            /\ (conservativeSum = RZero /\ liberalSum # RZero) =>
                   RLt(RZero, contentResult.score)
            /\ (liberalSum = RZero /\ conservativeSum # RZero) =>
                   RLt(contentResult.score, RZero)

\* "free market" (0.8) against "Medicare for all" (0.9): a score of 1/17
C11_Witness ==
    /\ LongEnough
    /\ contentResult.status = "ok"
    /\ contentResult.score = R(1, 17)
    /\ contentResult.confidence = R(17, 200)

\* the four framing classes, as the text shows them
Emotional == hasEmotionalFraming(ToLowerCase(text))
Victim == hasVictimFraming(ToLowerCase(text))
UsVsThem == hasUsVsThem(ToLowerCase(text))
Question == hasQuestionFraming(ToLowerCase(text))
FramingCalled == framingResult.status # "none" /\ LongEnough

\* the score fixed by priority
FramingPriority ==
    /\ (Emotional /\ UsVsThem) => framingResult.score = R(-3, 10)
    /\ (~(Emotional /\ UsVsThem) /\ Victim) => framingResult.score = R(2, 10)
    /\ (~(Emotional /\ UsVsThem) /\ ~Victim) => framingResult.score = RZero

EmotionCalled == emotionalResult.status # "none"
Tokens == Words(text)

\* the words of the lexicon and their valence, as the table lists them
LexiconWords == {vaderLexicon[k].word : k \in 1..Len(vaderLexicon)}
Valence(word) ==
    vaderLexicon[CHOOSE k \in 1..Len(vaderLexicon) :
                     vaderLexicon[k].word = word].valence
\* the entries that are neither intensifiers nor neutralizing words
StrongPositive == {w \in LexiconWords : RLe(RInt(1), Valence(w))}
StrongNegative == {w \in LexiconWords : RLe(Valence(w), RInt(-1))}

EmotionalLabels ==
    {"Highly Emotional", "Emotionally Charged", "Somewhat Emotional"}

\* C13: high raw valence of either sign is scored as emotional: text made of
\* strongly negative-valence lexicon words gets a negative score and an
\* emotional label, as text made of strongly positive-valence words does.
C13_EitherSignIsEmotional ==
    (/\ EmotionCalled
     /\ Len(Tokens) > 0
     /\ \/ \A i \in 1..Len(Tokens) : Tokens[i] \in StrongNegative
        \/ \A i \in 1..Len(Tokens) : Tokens[i] \in StrongPositive) =>
        /\ RLt(emotionalResult.score, RZero)
        /\ emotionalResult.label \in EmotionalLabels

\* the sums the function has when its loop ends
Sums == Loop(Tokens, Len(Tokens))
Divisor == IF Sums.wordCount > MinDivisor THEN Sums.wordCount ELSE MinDivisor
Sign(x) == IF x.n > 0 THEN 1 ELSE IF x.n < 0 THEN -1 ELSE 0

InLexicon(i) == i >= 1 /\ i <= Len(Tokens) /\ Tokens[i] \in LexiconWords
Intensified(i) ==
    /\ InLexicon(i - 1)
    /\ RLt(RZero, Valence(Tokens[i - 1]))
    /\ RLt(Valence(Tokens[i - 1]), RInt(1))
TokenTerm(i) ==
    LET own ==
            IF ~InLexicon(i) THEN RZero
            ELSE IF Intensified(i)
            THEN RMul(Valence(Tokens[i]),
                      RAdd(RInt(1), Valence(Tokens[i - 1])))
            ELSE Valence(Tokens[i])
        negated ==
            IF Tokens[i] \in Negators /\ InLexicon(i + 1)
            THEN RMul(R(1, 2), Valence(Tokens[i + 1]))
            ELSE RZero
    IN  RAdd(own, RNeg(negated))
RECURSIVE TermSum(_)
TermSum(k) == IF k = 0 THEN RZero ELSE RAdd(TermSum(k - 1), TokenTerm(k))
Matched == Cardinality({i \in 1..Len(Tokens) : InLexicon(i)})

\* C15: the emotional score equals -clamp(S / max(m, 10), -1, 1), m the
\* number of tokens found in the lexicon and S the sum over those tokens of
\* their valence (times 1 + v after a lexicon entry with 0 < v < 1) minus
\* half the valence of every lexicon token that follows a negator.
C15_ScoreFormula ==
    EmotionCalled =>
        emotionalResult.score =
            RNeg(Clamp(RDiv(TermSum(Len(Tokens)),
                            RInt(IF Matched > 10 THEN Matched ELSE 10))))

SevenLabels ==
    EmotionalLabels \cup {"Neutral", "Somewhat Analytical", "Analytical",
                          "Emotionless"}

\* C16: analyzeEmotionalCharge returns, for every text, a score in [-1,1],
\* an intensity equal to the absolute value of the score, in [0,1], and one
\* of the seven labels; with no token of the lexicon in the text the score
\* is 0 and the label is Neutral.
C16_AlwaysAScore ==
    EmotionCalled =>
        /\ emotionalResult.status = "ok"
        /\ IsNumber(emotionalResult.score)
        /\ RLe(RInt(-1), emotionalResult.score)
        /\ RLe(emotionalResult.score, RInt(1))
        /\ IsNumber(emotionalResult.intensity)
        /\ emotionalResult.intensity =
               [n |-> Abs(emotionalResult.score.n), d |-> emotionalResult.score.d]
        /\ RLe(emotionalResult.intensity, RInt(1))
        /\ emotionalResult.label \in SevenLabels
        /\ Matched = 0 =>
               /\ emotionalResult.score = RZero
               /\ emotionalResult.label = "Neutral"

(***************************************************************************)
(* Properties of the labels                                                *)
(***************************************************************************)
Thresholds == <<R(-6, 10), R(-3, 10), R(-1, 10), R(1, 10), R(3, 10), R(6, 10)>>
PoliticalBuckets ==
    <<"Conservative", "Moderately Conservative", "Slightly Conservative",
      "Moderate", "Slightly Liberal", "Moderately Liberal", "Liberal">>
EmotionalBuckets ==
    <<"Highly Emotional", "Emotionally Charged", "Somewhat Emotional",
      "Neutral", "Somewhat Analytical", "Analytical", "Emotionless">>

\* bucket k is [Thresholds[k - 1], Thresholds[k]), open-ended at both ends
InBucket(score, k) ==
    /\ k > 1 => RLe(Thresholds[k - 1], score)
    /\ k <= Len(Thresholds) => RLt(score, Thresholds[k])
BucketsOf(score) == {k \in 1..Len(Thresholds) + 1 : InBucket(score, k)}
InRange(score) ==
    IsNumber(score) /\ RLe(RInt(-1), score) /\ RLe(score, RInt(1))
Labelled(score, label, buckets) ==
    InRange(score) =>
        /\ Cardinality(BucketsOf(score)) = 1
        /\ \A k \in BucketsOf(score) : label = buckets[k]

UnitInterval(x) == IsNumber(x) /\ RLe(RZero, x) /\ RLe(x, RInt(1))
InVectorRange(result) ==
    result.status = "ok" => InRange(result.score) /\ UnitInterval(result.confidence)

DomainInRange ==
    /\ InVectorRange(domainResult)
    /\ domainResult.status = "ok" => domainResult.confidence = R(9, 10)
ContentInRange ==
    /\ InVectorRange(contentResult)
    /\ contentResult.status = "ok" => RLe(contentResult.confidence, R(8, 10))
ToneInRange ==
    /\ InVectorRange(toneResult)
    /\ toneResult.status = "ok" =>
           toneResult.confidence \in {R(1, 10), R(6, 10)}
LanguageInRange ==
    /\ InVectorRange(languageResult)
    /\ languageResult.status = "ok" => RLe(languageResult.confidence, R(5, 10))
FramingInRange ==
    /\ InVectorRange(framingResult)
    /\ framingResult.status = "ok" =>
           framingResult.confidence \in {R(1, 10), R(3, 10)}

\* C18: every result a vector returns has its score in [-1,1] and its
\* confidence in [0,1]; the domain confidence is 0.9, the content confidence
\* at most 0.8, the tone confidence 0.1 or 0.6, the language confidence at
\* most 0.5 and the framing confidence 0.1 or 0.3.
C18_VectorRanges ==
    /\ DomainInRange
    /\ ContentInRange
    /\ ToneInRange
    /\ LanguageInRange
    /\ FramingInRange

(***************************************************************************)
(* Properties of analyzeBiasMultiVector                                    *)
(***************************************************************************)
\* a result, once returned, is what every later run returns
Kept(result) == result.status # "none" => result' = result
ResultsKept ==
    /\ Kept(domainResult)
    /\ Kept(contentResult)
    /\ Kept(languageResult)
    /\ Kept(framingResult)
    /\ Kept(emotionalResult)

\* the slots after one run of each vector in the order of the source
InOrder ==
    [domain |-> Slot(analyzeDomainBias(metadata)),
     content |-> Slot(analyzeContentKeywords(text)),
     gdelt |-> vectors.gdelt,
     language |-> Slot(analyzeLanguagePatterns(text)),
     framing |-> Slot(analyzeFramingTechniques(text))]

SameInAnyOrder ==
    /\ Called => vectors = InOrder /\ combined = combineVectors(vectors, weights)
    /\ Called /\ EmotionCalled =>
           emotionalResult = analyzeEmotionalCharge(text)

Contributed == {name \in NameSet : vectors[name].present}

\* C20: a combined political result is produced only when at least two
\* vectors contributed; with fewer than two available vectors the analysis
\* fails instead of returning a score.
C20_AtLeastTwoVectors ==
    Called => (Returned <=> Cardinality(Contributed) >= 2)

RECURSIVE WeightSum(_)
WeightSum(k) ==
    IF k = 0 THEN RZero ELSE RAdd(WeightSum(k - 1), weights[VectorNames[k]])

\* C21: the five nominal weights (domain 0.35, content 0.25, tone 0.20,
\* language 0.12, framing 0.08) sum to 1, and every vector name that
\* analyzeBiasMultiVector fills has an entry in the weight table.
C21_WeightsSumToOne ==
    /\ WeightSum(Len(VectorNames)) = RInt(1)
    /\ DOMAIN vectors \subseteq DOMAIN weights
    /\ \A name \in Contributed : RLt(RZero, weights[name])

\* all five slots filled and combined under the table
C21_Witness ==
    /\ Returned
    /\ Contributed = NameSet
    /\ combined.confidence = R(9, 10)

(***************************************************************************)
(* Properties of analyzeBiasGDELT                                          *)
(***************************************************************************)
BiasCalled == politicalBias.status # "none"
InList(name, list) == \E i \in 1..Len(list) : list[i] = name

Count(list, x) == Cardinality({i \in 1..Len(list) : list[i] = x})
AllStages == <<"political", "emotional", "summary", "opposing">>
\* the call returned an analysis it made itself
Analyzed == articlePc = "done" /\ returned.made
\* the stages whose catch block ran, by what they left in the analysis
FailedStages(a) ==
    {e \in {PoliticalError} : ~a.bias.success}
    \cup {e \in {EmotionalError} : ~a.emotionalCharge.success}
    \cup {e \in {SummaryError} : a.neutralSummary = UnableToGenerate}
    \cup {e \in {OpposingError} : a.opposingArticles = NoArticles}
Marked(field) ==
    /\ field.assigned
    /\ field.success <=> field.score.kind = "number"
    /\ ~field.success <=> field.score.kind = "null"

\* C23: on a cache miss analyzeArticle runs the political, the emotional, the
\* summary and the opposing-article stage in this order, whatever failed
\* before; the analysis it returns has bias, emotionalCharge, neutralSummary,
\* opposingViewpoint and opposingArticles; its errors list has exactly one
\* entry per failed stage; a failed political or emotional stage has
\* success false and score null, a successful one success true and a
\* score that is not null.
C23_StagesIndependent ==
    /\ stages = SubSeq(AllStages, 1, Len(stages))
    /\ Analyzed =>
           /\ stages = AllStages
           /\ returned = analysis
           /\ Marked(returned.bias)
           /\ Marked(returned.emotionalCharge)
           /\ returned.neutralSummary.assigned
           /\ returned.opposingViewpoint.assigned
           /\ returned.opposingArticles.assigned
           /\ Len(returned.errors) = Cardinality(FailedStages(returned))
           /\ \A e \in FailedStages(returned) : Count(returned.errors, e) = 1

\* the emotional, the summary and the opposing stage failed, the political
\* one did not, and every field is there
C23_Witness ==
    /\ Analyzed
    /\ returned.bias.success
    /\ returned.errors = <<EmotionalError, SummaryError, OpposingError>>
    /\ returned.opposingArticles = NoArticles

(***************************************************************************)
(* Properties of the cache                                                 *)
(***************************************************************************)
\* call a is an analyzeArticle that missed the cache, ran and returned
CompletedMiss(a) ==
    /\ calls[a].type = "ANALYZE_ARTICLE"
    /\ calls[a].ranStages
    /\ Answered(a)
\* call c is a lookup received after call a was answered, for the same key,
\* and answered before the expiry time has passed since the run began
LaterLookup(a, c) ==
    /\ calls[c].type \in {"ANALYZE_ARTICLE", "GET_ANALYSIS"}
    /\ a \in calls[c].after
    /\ Answered(c)
    /\ calls[c].key = calls[a].key
    /\ now - StartMs <= CACHE_EXPIRY_MS
NoClearCache == \A k \in CallIds : calls[k].type # "CLEAR_CACHE"

\* C24: an analysis is cached even when it has errors: after analyzeArticle
\* completed on a cache miss, every later analyzeArticle or GET_ANALYSIS for
\* the same cache key, within 7 days and before any CLEAR_CACHE, returns
\* that same analysis and runs no stage, also when the API key was set in
\* between.
C24_CachedEvenWithErrors ==
    \A a \in CallIds, c \in CallIds :
        CompletedMiss(a) /\ LaterLookup(a, c) /\ NoClearCache =>
            /\ calls[c].response.analysis = calls[a].response.analysis
            /\ ~calls[c].ranStages

\* call i is in getCachedAnalysis and this step gives it the answer of
\* chrome.storage.local.get
Looks(i) == calls[i].pc = "get" /\ calls'[i].pc # "get"
\* the entry under the key of call i, and whether it is at most 7 days old
EntryOf(i) == storage[calls[i].key]
Fresh(entry, t) == entry.kind = "cache" /\ t - entry.timestamp <= CACHE_EXPIRY_MS
\* what getCachedAnalysis returned to call i, NoAnalysis for null
Found(call) ==
    IF call.type = "GET_ANALYSIS" THEN call.response.analysis
    ELSE IF call.pc = "done" THEN call.response.analysis
    ELSE NoAnalysis
Returns(call) == call.pc \in {"done", "stages"}

\* C25: getCachedAnalysis returns the stored data exactly when an entry
\* exists under the key and is at most 7 days old; for an older entry it
\* removes the key and returns null; it never throws, a storage error makes
\* it return null.
C25_LookupStep ==
    \A i \in CallIds :
        /\ Looks(i) =>
               /\ calls'[i].pc \in {"done", "stages", "remove"}
               /\ calls'[i].caught => Returns(calls'[i]) /\ ~Found(calls'[i]).made
               /\ ~calls'[i].caught =>
                      /\ Fresh(EntryOf(i), now) =>
                             /\ Returns(calls'[i])
                             /\ Found(calls'[i]) = EntryOf(i).data
                      /\ EntryOf(i).kind = "none" =>
                             /\ Returns(calls'[i])
                             /\ ~Found(calls'[i]).made
                      /\ EntryOf(i).kind = "cache" /\ ~Fresh(EntryOf(i), now) =>
                             calls'[i].pc = "remove"
        /\ calls[i].pc = "remove" /\ calls'[i].pc # "remove" =>
               /\ Returns(calls'[i])
               /\ ~Found(calls'[i]).made
               /\ ~calls'[i].caught => EntryOf(i)' = NoEntry
               /\ calls'[i].caught => storage' = storage
C25_FreshOrNull == [][C25_LookupStep]_vars

\* a lookup was answered with the analysis another call had stored, and a
\* later lookup of the same key was answered null after the expiry time,
\* without a storage error, the entry being gone
C25_Witness ==
    \E a \in CallIds, c \in CallIds, d \in CallIds :
        /\ CompletedMiss(a)
        /\ calls[c].type = "GET_ANALYSIS"
        /\ calls[c].response.analysis = calls[a].response.analysis
        /\ calls[d].type = "GET_ANALYSIS"
        /\ c \in calls[d].after
        /\ calls[d].key = calls[c].key
        /\ Answered(d)
        /\ ~calls[d].caught
        /\ ~calls[d].response.analysis.made
        /\ EntryOf(d) = NoEntry
        /\ now = StartMs + CACHE_EXPIRY_MS + 1

\* the url without its query and its fragment
Bare(url) == SubSeq(url.s, 1, FirstOf(url.s, {"?", "#"}) - 1)
Parses(url) == url.present /\ ParseUrl(url.s).valid
Keyed(i) == calls[i].type # "none"

\* C29: the cache key is the prefix, the origin and the path of the url: two
\* urls that differ only in the query or the fragment have one key, two urls
\* of different origins or paths have different keys, and a string that is
\* no url has the prefix and the string itself as its key.
C29_KeyOfOriginAndPath ==
    \A i \in CallIds, j \in CallIds :
        Keyed(i) /\ Keyed(j) =>
            LET u == calls[i].url
                v == calls[j].url
            IN  /\ StartsWith(calls[i].key, CACHE_PREFIX)
                /\ Parses(u) /\ Parses(v) /\ Bare(u) = Bare(v) =>
                       calls[i].key = calls[j].key
                /\ Parses(u) /\ Parses(v) =>
                       (calls[i].key = calls[j].key <=>
                            /\ ParseUrl(u.s).origin = ParseUrl(v.s).origin
                            /\ ParseUrl(u.s).pathname = ParseUrl(v.s).pathname)
                /\ u.present /\ ~Parses(u) => calls[i].key = CACHE_PREFIX \o u.s

\* the article, the same with a query, and another path were keyed: one key
\* for the first two, another for the third
C29_Witness ==
    /\ calls[1].url = HrefArticle
    /\ calls[2].url = HrefQuery
    /\ calls[3].url = HrefOtherPath
    /\ calls[1].key = calls[2].key
    /\ calls[1].key # calls[3].key

\* this step answers the CLEAR_CACHE call k with success
ReportsCleared(k) ==
    /\ calls[k].type = "CLEAR_CACHE"
    /\ ~Answered(k)
    /\ Answered(k)'
    /\ calls'[k].response.success
\* the keys under which something is stored
Stored(store) == {key \in DOMAIN store : store[key].kind # "none"}
\* getCachedAnalysis(url) would return null for every url
NothingCached(store) ==
    \A key \in Stored(store) : ~StartsWith(key, CACHE_PREFIX)

\* C30: clearCache removes every entry whose key begins with the cache
\* prefix and leaves every other key (geminiApiKey) as it is; when it reports
\* success, getCachedAnalysis returns null for every url until a new
\* analysis is stored.
C30_ClearStep ==
    \A k \in CallIds :
        /\ ReportsCleared(k) => NothingCached(storage')
        /\ calls[k].type = "CLEAR_CACHE" /\ calls'[k] # calls[k] =>
               storage'[ApiKeyName] = storage[ApiKeyName]
C30_ClearsEveryEntry == [][C30_ClearStep]_vars

(***************************************************************************)
(* Properties of the content script                                        *)
(***************************************************************************)
\* C26: the isProcessing flag keeps at most one ANALYZE_ARTICLE request of a
\* page outstanding: while the response to one has not arrived, processArticle
\* sends no other.
C26_OneOutstanding == Len(outstanding) <= 1

(***************************************************************************)
(* C27: saving a key                                                       *)
(***************************************************************************)
\* a save of a non-empty key has completed: its callback ran to its end or
\* threw, and saveApiKey waits on no message
SaveCompleted ==
    /\ savePc = "idle"
    /\ lastSave.key # NoKey
    /\ lastSave.outcome # "none"

\* C27: after the save of a non-empty key completes, the worker's key
\* (geminiApiKey, returned by GET_API_KEY and used by callGeminiAPI) equals
\* the saved key, the Save button is enabled again and a new analysis was
\* requested
C27_SavedKeyReachesWorker ==
    SaveCompleted =>
        /\ geminiApiKey = lastSave.key
        /\ ~saveButton.disabled
        /\ lastSave.requested

(***************************************************************************)
(* C28: the polling of requestAnalysis                                     *)
(***************************************************************************)
\* the pane shows the analysis or the timeout error
ShowsOutcome(v) ==
    \/ v.shown = "content"
    \/ v.shown = "error" /\ v.message = TimeoutMessage
\* a response that carries an analysis reaches the callback of a session
AnalysisArrives(id) ==
    /\ sessions'[id].pending < sessions[id].pending
    /\ storage[TabKey].kind # "none"
C28_PollStep ==
    \A id \in SessionIds :
        \* at most maxAttempts attempts, and none left polling at the last
        /\ sessions'[id].attempts <= maxAttempts
        /\ sessions'[id].attempts = maxAttempts =>
               sessions'[id].state = "stopped"
        \* a stopped session sends no further GET_ANALYSIS
        /\ sessions[id].state = "stopped" =>
               /\ sessions'[id].state = "stopped"
               /\ sessions'[id].attempts = sessions[id].attempts
               /\ sessions'[id].pending <= sessions[id].pending
        \* the first response with an analysis stops the session
        /\ AnalysisArrives(id) => sessions'[id].state = "stopped"
        \* when it stops the sidebar leaves the loading state
        /\ sessions[id].state = "polling" /\ sessions'[id].state = "stopped"
               => ShowsOutcome(view')

\* C28: the polling started by a successful EXTRACT_ARTICLE reply always
\* stops, at the first response that carries an analysis or after at most
\* 120 attempts; a stopped session sends no further GET_ANALYSIS, and when
\* it stops the sidebar shows the analysis or the timeout error
C28_PollingStops ==
    /\ [][C28_PollStep]_vars
    /\ \A id \in SessionIds :
           sessions[id].state = "polling" ~> sessions[id].state = "stopped"
\* one session ran into the timeout, the next one was stopped by an
\* analysis
C28_Witness ==
    /\ sessions[1].state = "stopped"
    /\ sessions[1].attempts = maxAttempts
    /\ sessions[2].state = "stopped"
    /\ sessions[2].attempts < maxAttempts
    /\ view.shown = "content"

=============================================================================
